---- MODULE Spec2Model ----
(***************************************************************************)
(* Log broadcast pipeline of a DockerContainer (src/docker.go):            *)
(* StartLogProducer spawns a worker goroutine that reads the engine's      *)
(* multiplexed log stream (8-byte header, payload), decodes frames and     *)
(* hands each one to the registered LogConsumers; StopLogProducer sends    *)
(* on the unbuffered channel stopProducer; FollowOutput appends to the     *)
(* consumer list.                                                          *)
(*                                                                         *)
(* Environment: the engine appends frames to the container's log, the      *)
(* network layer may close a worker's connection, the 5 second deadline of *)
(* a log request passes, a Read may hand back fewer bytes than asked for,  *)
(* and the engine may refuse a log request or a Close.                     *)
(*                                                                         *)
(* Time is the logical clock Now: the number of frames the engine has      *)
(* emitted so far; frame i carries timestamp i and every later reading of  *)
(* the clock is after it.                                                  *)
(*                                                                         *)
(* Session lifecycle of the DockerProvider (src/docker.go): CreateContainer,*)
(* CreateNetwork and RunContainer run on the caller's goroutine, one engine *)
(* or reaper call per step; Start, Terminate and DockerNetwork.Remove act   *)
(* on the handles they returned.  The reaper (NewReaper, Connect, Labels,   *)
(* its listener goroutine and its sweep) is not part of src/docker.go and   *)
(* is modelled from the specification of the reaper watchdog protocol.      *)
(*                                                                         *)
(* attemptToPullImage retries ImagePull under an exponential back-off      *)
(* bound to the caller's context; Logs reads the engine's stream line by   *)
(* line through a bufio.Reader and cuts the first streamHeaderSize bytes   *)
(* of every line.  The wait strategies are not part of src/ and are        *)
(* modelled from the specification of the wait strategy engine.            *)
(***************************************************************************)
EXTENDS Integers, Sequences, FiniteSets, TLC

\* ------------------------------------------------------------------ bounds
MaxWorkers == 2
MaxFrames == 2
MaxConsumers == 2
MaxCloses == 1
MaxShortReads == 1
MaxCreates == 2
MaxElapsedTime == 5
MaxKeys == 2
MaxLines == 2
MaxCalls == 4
MaxLogFrames == 2
BufferSize == 12
StartupTimeout == 3

\* ------------------------------------------------------- program constants
StdoutLog == "STDOUT"
StderrLog == "STDERR"
HeaderSize == 8

\* Tag bytes the engine may put in a header, and payload lengths it emits.
Tags == {0, 1, 2, 3}
Frames == {[tag |-> 1, n |-> 0]} \cup {[tag |-> t, n |-> 2] : t \in Tags}
CodecFrames == {[tag |-> 1, n |-> 0], [tag |-> 1, n |-> 2], [tag |-> 2, n |-> 2]}

VARIABLES
    log,            \* engine: the frames emitted so far, in order
    consumers,      \* c.consumers: registration order
    stopProducer,   \* number of goroutines parked in a send on c.stopProducer
    worker,         \* the log-producer goroutines
    accepted,       \* per consumer: the Accept calls it got, in order; each is
                    \* recorded as the engine frame the Log was decoded from
                    \* (0: the Log is no frame as the engine wrote it)
    closes,         \* connections closed by the network layer so far
    shorts,         \* Reads that returned fewer bytes than were there so far
    panicked,       \* a goroutine panicked: the process is gone
    call,           \* the provider call the caller's goroutine is in
    res,            \* the containers and networks created: handle and engine side
    images,         \* the images built by BuildImage, engine side
    reaper,         \* the process-wide reaper and its listener goroutine
    crashed,        \* the owning process died
    uuids,          \* uuid.New() calls of CreateContainer/CreateNetwork so far
    ret,            \* what the last finished call returned
    pulling,        \* the attemptToPullImage call and the clock of its back-off
    reading,        \* the Logs call and the goroutine that feeds its pipe
    waiting,        \* a WaitUntilReady call, its clock and what it probes
    merging,        \* the labels of a create request and the range over r.Labels()
    piping,         \* the goroutine of Logs, its pipe and the reader of the pipe
    reusing,        \* ReuseOrCreateContainer: the container listed, the handle made
    env             \* the provider's container-environment information and its Once

logVars == <<log, consumers, stopProducer, worker, accepted, closes, shorts, panicked>>
lifeVars == <<call, res, images, reaper, crashed, uuids, ret>>
auxVars == <<pulling, reading, waiting, merging, piping, reusing, env>>
exceptPulling == <<logVars, lifeVars, reading, waiting, merging, piping, reusing, env>>
exceptReading == <<logVars, lifeVars, pulling, waiting, merging, piping, reusing, env>>
exceptWaiting == <<logVars, lifeVars, pulling, reading, merging, piping, reusing, env>>
exceptMerging == <<logVars, lifeVars, pulling, reading, waiting, piping, reusing, env>>
exceptPiping == <<logVars, lifeVars, pulling, reading, waiting, merging, reusing, env>>
exceptReusing == <<logVars, pulling, reading, waiting, merging, piping, env>>
exceptEnv == <<logVars, lifeVars, pulling, reading, waiting, merging, piping, reusing>>

vars ==
    <<log, consumers, stopProducer, worker, accepted, closes, shorts, panicked,
      call, res, images, reaper, crashed, uuids, ret, pulling, reading, waiting,
      merging, piping, reusing, env>>

Workers == 1..MaxWorkers
Min(a, b) == IF a < b THEN a ELSE b

\* -------------------------------------------------------------- the codec
\* binary.BigEndian.Uint32
Uint32(b) == ((b[1] * 256 + b[2]) * 256 + b[3]) * 256 + b[4]

\* the engine's header for a frame of n payload bytes
Header(tag, n) ==
    <<tag, 0, 0, 0, (n \div 16777216) % 256, (n \div 65536) % 256,
      (n \div 256) % 256, n % 256>>

Encode(f) == Header(f.tag, Len(f.payload)) \o f.payload

\* the bytes of the log stream opened with Since = since: the frames stamped
\* after since ("" is 0: everything)
RECURSIVE StreamFrom(_)
StreamFrom(i) ==
    IF i > Len(log) THEN <<>> ELSE Encode(log[i]) \o StreamFrom(i + 1)

Stream(since) == StreamFrom(since + 1)

\* offset in Stream(since) at which frame i starts
RECURSIVE FrameStart(_, _)
FrameStart(since, i) ==
    IF i <= since + 1 THEN 0
    ELSE FrameStart(since, i - 1) + Len(Encode(log[i - 1]))

\* the frame of Stream(since) that starts at offset pos, 0 if none does
FrameAt(since, pos) ==
    LET s == {i \in (since + 1)..Len(log) : FrameStart(since, i) = pos}
    IN IF s = {} THEN 0 ELSE CHOOSE i \in s : TRUE

\* make([]byte, n) filled by one Read that returned the bytes got
Zeros(n) == [i \in 1..n |-> 0]
Filled(got, n) == got \o Zeros(n - Len(got))

\* logTypes := []string{"", StdoutLog, StderrLog}
logTypes == <<"", StdoutLog, StderrLog>>

\* if logType > 2 { logType = 1 }
NormLogType(logType) == IF logType > 2 THEN 1 ELSE logType

Now == Len(log)

\* ------------------------------------------------------------------- state
NoWorker ==
    [pc |-> "none", since |-> 0, pos |-> 0, st |-> "none",
     h0 |-> 0, count |-> 0, b |-> <<>>, src |-> 0, n |-> 0, idx |-> 0,
     seen |-> 0]

Alive(w) == worker[w].pc \notin {"none", "exited"}

\* a request of no call
NoRequest ==
    [kind |-> "none", skip |-> FALSE, wait |-> FALSE, build |-> FALSE, label |-> 0,
     more |-> FALSE]

\* the caller's goroutine is in no provider call
Idle ==
    [op |-> "idle", pc |-> "idle", req |-> NoRequest, sid |-> 0, term |-> FALSE,
     label |-> 0, img |-> 0, c |-> 0]

\* no reaper yet: NewReaper was never called with success
NoReaper == [sid |-> 0, conn |-> FALSE, lst |-> "none", swept |-> FALSE]

NoReturn == [h |-> 0, err |-> FALSE]

\* Logs has not been called
NotReading ==
    [pc |-> "idle", frames |-> <<>>, pos |-> 0, lineStarted |-> TRUE,
     isPrefix |-> TRUE, out |-> <<>>]

\* WaitUntilReady has not been called: the strategy is Pending
NotWaiting ==
    [pc |-> "Pending", kind |-> "none", occurrence |-> 0, now |-> 0,
     slept |-> TRUE, cancelled |-> FALSE, probes |-> 0, late |-> 0,
     err |-> "nil", log |-> <<>>, server |-> "refused"]

\* no create request has got to its labels
NotMerging ==
    [pc |-> "idle", own |-> <<>>, labels |-> <<>>, reaper |-> <<>>, todo |-> {},
     sent |-> <<>>]

\* Logs has not made its pipe
NotPiping ==
    [pc |-> "idle", left |-> 0, isPrefix |-> TRUE, err |-> "nil", werr |-> "nil",
     reader |-> "none", wrote |-> 0, got |-> 0, rerr |-> "nil"]

\* ReuseOrCreateContainer has listed no container and made no handle
NoContainer ==
    [ID |-> 0, sessionID |-> 0, terminationSignal |-> FALSE, skipReaper |-> FALSE,
     isRunning |-> FALSE]

NotReusing == [State |-> "none", dc |-> NoContainer]

\* no provider yet; a new one has initContainerEnvOnce not done and
\* endpointHostCache empty (0)
NoEnv ==
    [scheme |-> "none", runningInContainer |-> FALSE, done |-> FALSE, runs |-> 0,
     failed |-> "nil", endpointHostCache |-> 0, calls |-> 0,
     ret |-> [op |-> "none", host |-> 0, err |-> "nil"]]

\* attemptToPullImage has not been called
NotPulling ==
    [pc |-> "idle", now |-> 0, wake |-> 0, n |-> 0, last |-> "none",
     cancelled |-> FALSE, late |-> 0, err |-> "nil"]

Init ==
    /\ call = Idle
    /\ res = <<>>
    /\ images = <<>>
    /\ reaper = NoReaper
    /\ crashed = FALSE
    /\ uuids = 0
    /\ ret = NoReturn
    /\ log = <<>>
    /\ consumers = <<>>
    /\ stopProducer = 0
    /\ worker = [w \in Workers |-> NoWorker]
    /\ accepted = [c \in 1..MaxConsumers |-> <<>>]
    /\ closes = 0
    /\ shorts = 0
    /\ panicked = FALSE
    /\ pulling = NotPulling
    /\ reading = NotReading
    /\ waiting = NotWaiting
    /\ merging = NotMerging
    /\ piping = NotPiping
    /\ reusing = NotReusing
    /\ env = NoEnv

\* ------------------------------------------------------------ environment
\* payload bytes of the i-th frame: distinct and non-zero
PayloadOf(i, n) == [j \in 1..n |-> 16 * i + j]

\* the engine writes one more frame to the container's log
Emit(tag, n) ==
    /\ ~panicked
    /\ Len(log) < MaxFrames
    /\ log' = Append(log, [tag |-> tag, payload |-> PayloadOf(Len(log) + 1, n)])
    /\ UNCHANGED <<consumers, stopProducer, worker, accepted, closes, shorts, panicked>>
    /\ UNCHANGED <<lifeVars, auxVars>>

\* the network layer closes the connection under a worker's stream
CloseConnection(w) ==
    /\ ~panicked
    /\ worker[w].st = "open"
    /\ closes < MaxCloses
    /\ worker' = [worker EXCEPT ![w].st = "closed"]
    /\ closes' = closes + 1
    /\ UNCHANGED <<log, consumers, stopProducer, accepted, shorts, panicked>>
    /\ UNCHANGED <<lifeVars, auxVars>>

\* context.WithTimeout(ctx, time.Second*5): the deadline of the log request passes
Expire(w) ==
    /\ ~panicked
    /\ worker[w].st = "open"
    /\ worker' = [worker EXCEPT ![w].st = "expired"]
    /\ UNCHANGED <<log, consumers, stopProducer, accepted, closes, shorts, panicked>>
    /\ UNCHANGED <<lifeVars, auxVars>>

\* the container's log stream ends when the worker has read all of it: every
\* Read of the stream returns io.EOF from now on
EndStream(w) ==
    /\ ~panicked
    /\ worker[w].st = "open"
    /\ Len(Stream(worker[w].since)) = worker[w].pos
    /\ worker' = [worker EXCEPT ![w].st = "ended"]
    /\ UNCHANGED <<log, consumers, stopProducer, accepted, closes, shorts, panicked>>
    /\ UNCHANGED <<lifeVars, auxVars>>

\* ------------------------------------------------------ the calling goroutine
\* the caller is parked in StopLogProducer while stopProducer = 1
FollowOutput ==
    /\ ~panicked
    /\ stopProducer = 0
    /\ Len(consumers) < MaxConsumers
    /\ consumers' = Append(consumers, Len(consumers) + 1)
    /\ UNCHANGED <<log, stopProducer, worker, accepted, closes, shorts, panicked>>
    /\ UNCHANGED <<lifeVars, auxVars>>

\* go func() { since := "" ...: no check for a worker that already runs.
\* W: the goroutines the calls of one run may take; racy: the run follows what
\* the goroutine may see of c.consumers, and seen is the length of the slice at
\* the go statement, the last write to it that is ordered before the goroutine
StartLogProducer(W, racy) ==
    /\ ~panicked
    /\ stopProducer = 0
    /\ \E w \in W :
        /\ worker[w].pc = "none"
        /\ \A v \in W : v < w => worker[v].pc # "none"
        /\ worker' = [worker EXCEPT
                        ![w] = [NoWorker EXCEPT
                                  !.pc = "BEGIN",
                                  !.seen = IF racy THEN Len(consumers) ELSE 0]]
    /\ UNCHANGED <<log, consumers, stopProducer, accepted, closes, shorts, panicked>>
    /\ UNCHANGED <<lifeVars, auxVars>>

\* c.stopProducer <- true on a channel made with make(chan bool): the sender
\* parks until a worker receives
StopLogProducer ==
    /\ ~panicked
    /\ stopProducer = 0
    /\ stopProducer' = 1
    /\ UNCHANGED <<log, consumers, worker, accepted, closes, shorts, panicked>>
    /\ UNCHANGED <<lifeVars, auxVars>>

\* ------------------------------------------------------------- the worker
Avail(w) == Len(Stream(worker[w].since)) - worker[w].pos

Took(w, k) ==
    SubSeq(Stream(worker[w].since), worker[w].pos + 1, worker[w].pos + k)

\* the locals of one loop iteration are dead at the top of the loop
AtSelect(r) ==
    [r EXCEPT !.pc = "select", !.h0 = 0, !.count = 0, !.b = <<>>,
              !.src = 0, !.n = 0, !.idx = 0]

\* BEGIN: r, err := c.provider.client.ContainerLogs(ctx, ..., options)
ContainerLogs(w) ==
    /\ ~panicked
    /\ worker[w].pc = "BEGIN"
    /\ \E ok \in BOOLEAN :
        IF ok
        THEN /\ worker' = [worker EXCEPT ![w].pc = "select", ![w].pos = 0,
                                         ![w].st = "open"]
             /\ UNCHANGED panicked
        ELSE /\ panicked' = TRUE
             /\ UNCHANGED worker
    /\ UNCHANGED <<log, consumers, stopProducer, accepted, closes, shorts>>
    /\ UNCHANGED <<lifeVars, auxVars>>

\* select { case <-c.stopProducer: r.Close(); return   default: ... }
Select(w) ==
    /\ ~panicked
    /\ worker[w].pc = "select"
    /\ IF stopProducer > 0
       THEN /\ stopProducer' = stopProducer - 1
            /\ \E ok \in BOOLEAN :
                IF ok
                THEN /\ worker' = [worker EXCEPT ![w].pc = "exited",
                                                 ![w].st = "shut"]
                     /\ UNCHANGED panicked
                ELSE /\ panicked' = TRUE
                     /\ UNCHANGED worker
       ELSE /\ worker' = [worker EXCEPT ![w].pc = "read"]
            /\ UNCHANGED <<stopProducer, panicked>>
    /\ UNCHANGED <<log, consumers, accepted, closes, shorts>>
    /\ UNCHANGED <<lifeVars, auxVars>>

\* the byte counts one Read into a buffer of n bytes may return: what is there,
\* up to n, or (short) any smaller positive number
ReadSizes(w, n, short) ==
    IF short /\ shorts < MaxShortReads
    THEN 1..Min(n, Avail(w))
    ELSE {Min(n, Avail(w))}

Short(w, n, k) == IF k < Min(n, Avail(w)) THEN 1 ELSE 0

\* a decoder that forgets the zero-length test
SkippedNever(count) == FALSE

\* if count == 0 { continue }
Skipped(count) == count = 0

\* a worker that returns when a Read fails
AfterReadErrorReturns(r) == [r EXCEPT !.pc = "exited"]

\* an error of r.Read(h) that is not a closed connection: continue
AfterReadError(r) == AtSelect(r)

\* h := make([]byte, 8); _, err := r.Read(h) and the decoding of the header
ReadHeader(w, short) ==
    /\ ~panicked
    /\ worker[w].pc = "read"
    /\ CASE worker[w].st = "closed" ->
              /\ worker' = [worker EXCEPT ![w].pc = "BEGIN", ![w].pos = 0,
                                          ![w].since = Now]
              /\ UNCHANGED shorts
         [] worker[w].st \in {"expired", "ended"} ->
              /\ worker' = [worker EXCEPT ![w] = AfterReadError(@)]
              /\ UNCHANGED shorts
         [] OTHER ->
              /\ Avail(w) > 0
              /\ \E k \in ReadSizes(w, HeaderSize, short) :
                  LET h == Filled(Took(w, k), HeaderSize)
                      count == Uint32(SubSeq(h, 5, 8))
                      at == FrameAt(worker[w].since, worker[w].pos)
                  IN /\ shorts' = shorts + Short(w, HeaderSize, k)
                     /\ IF Skipped(count)
                        THEN worker' = [worker EXCEPT
                                          ![w] = AtSelect([@ EXCEPT !.pos = @ + k])]
                        ELSE worker' = [worker EXCEPT
                                          ![w].pc = "payload",
                                          ![w].pos = @ + k,
                                          ![w].h0 = h[1],
                                          ![w].count = count,
                                          ![w].src = IF k = HeaderSize THEN at ELSE 0]
    /\ UNCHANGED <<log, consumers, stopProducer, accepted, closes, panicked>>
    /\ UNCHANGED <<lifeVars, auxVars>>

\* the lengths of c.consumers the range of the goroutine may find.  FollowOutput
\* appends with no lock and no channel operation between it and the range, so
\* the read races with every append made since the go statement and may give
\* the slice as it was before any of them.
Ranged(w, racy) ==
    IF racy THEN worker[w].seen..Len(consumers) ELSE {Len(consumers)}

\* b := make([]byte, count); _, err = r.Read(b); then range c.consumers
ReadPayload(w, short, racy) ==
    /\ ~panicked
    /\ worker[w].pc = "payload"
    /\ IF worker[w].st # "open"
       THEN /\ worker' = [worker EXCEPT ![w] = AtSelect(@)]
            /\ UNCHANGED shorts
       ELSE /\ worker[w].count = 0 \/ Avail(w) > 0
            /\ \E k \in ReadSizes(w, worker[w].count, short), n \in Ranged(w, racy) :
                LET r == [worker[w] EXCEPT
                            !.pos = @ + k,
                            !.b = Took(w, k),
                            !.src = IF k = worker[w].count THEN @ ELSE 0,
                            !.n = n,
                            !.idx = 1]
                IN /\ shorts' = shorts + Short(w, worker[w].count, k)
                   /\ worker' = [worker EXCEPT
                                   ![w] = IF n = 0
                                          THEN AtSelect(r)
                                          ELSE [r EXCEPT !.pc = "deliver"]]
    /\ UNCHANGED <<log, consumers, stopProducer, accepted, closes, panicked>>
    /\ UNCHANGED <<lifeVars, auxVars>>

\* the Log handed to Accept
LogOf(w) ==
    [LogType |-> logTypes[NormLogType(worker[w].h0) + 1],
     Content |-> Filled(worker[w].b, worker[w].count)]

\* for _, c := range c.consumers { c.Accept(Log{...}) }: one Accept
Deliver(w) ==
    /\ ~panicked
    /\ worker[w].pc = "deliver"
    /\ accepted' = [accepted EXCEPT ![worker[w].idx] = Append(@, worker[w].src)]
    /\ worker' = [worker EXCEPT
                    ![w] = IF worker[w].idx = worker[w].n
                           THEN AtSelect(@)
                           ELSE [@ EXCEPT !.idx = @ + 1]]
    /\ UNCHANGED <<log, consumers, stopProducer, closes, shorts, panicked>>
    /\ UNCHANGED <<lifeVars, auxVars>>

WorkerStep(w, short, racy) ==
    \/ ContainerLogs(w)
    \/ Select(w)
    \/ ReadHeader(w, short)
    \/ ReadPayload(w, short, racy)
    \/ Deliver(w)

\* ------------------------------------------------------------ the pipeline
\* W: the worker goroutines of the run; short: a Read may return fewer bytes
\* than are there; F: the frames the engine emits; racy: the goroutine's reads
\* of c.consumers may give what the data race allows
Pipeline(W, short, F, racy) ==
    \/ \E f \in F : Emit(f.tag, f.n)
    \/ \E w \in W : CloseConnection(w)
    \/ \E w \in W : Expire(w)
    \/ FollowOutput
    \/ StartLogProducer(W, racy)
    \/ StopLogProducer
    \/ \E w \in W : WorkerStep(w, short, racy)

\* Any number of StartLogProducer calls; every Read returns what is there.
Next == Pipeline(Workers, FALSE, Frames, FALSE)

Spec == Init /\ [][Next]_vars

\* One StartLogProducer call; a Read may return fewer bytes than are there.
CodecNext == Pipeline({1}, TRUE, CodecFrames, FALSE)

CodecSpec == Init /\ [][CodecNext]_vars

\* One StartLogProducer call, every Read returns what is there; the Go scheduler
\* runs every runnable goroutine, and the 5 seconds of a log request pass.
FairNext == Pipeline({1}, FALSE, CodecFrames, FALSE)

FairSpec ==
    /\ Init
    /\ [][FairNext]_vars
    /\ WF_vars(WorkerStep(1, FALSE, FALSE))
    /\ WF_vars(Expire(1))

\* One StartLogProducer call, every Read returns what is there; the goroutine's
\* reads of c.consumers are the reads of a data race.
RaceNext == Pipeline({1}, FALSE, CodecFrames, TRUE)

RaceSpec == Init /\ [][RaceNext]_vars

\* One StartLogProducer call, every Read returns what is there; the container's
\* log stream may end.
EndNext ==
    \/ Pipeline({1}, FALSE, CodecFrames, FALSE)
    \/ EndStream(1)

EndSpec == Init /\ [][EndNext]_vars

\* =========================================================== session lifecycle
\* The session-group label of a resource is modelled by its value: 0 when the
\* label is absent, the session-group identifier when the reaper's label was
\* merged in, Mine when the caller's request already had a label of that key.
Mine == -1

\* req.SkipReaper, req.WaitingFor != nil, req.ShouldBuildImage(), req.Labels;
\* more: the request names further networks (len(req.Networks) > 1) and files
\* to copy (req.Files)
ContainerRequests ==
    [kind : {"container"}, skip : BOOLEAN, wait : BOOLEAN, build : BOOLEAN,
     label : {0, Mine}, more : BOOLEAN]

NetworkRequests ==
    [kind : {"network"}, skip : BOOLEAN, wait : {FALSE}, build : {FALSE},
     label : {0, Mine}, more : {FALSE}]

\* ---- the reaper, from the specification of the watchdog protocol
\* NewReaper(ctx, sessionID, ...): the process-wide reaper is provisioned on the
\* first call and reused afterwards; it keeps the identifier it was made with
NewReaper(r, sessionID) == IF r.sid = 0 THEN [r EXCEPT !.sid = sessionID] ELSE r

\* r.Connect(): idempotent per process; the first call opens the control
\* connection and starts the goroutine that listens on the notify channel
Connect(r) ==
    [r EXCEPT !.conn = TRUE, !.lst = IF @ = "none" THEN "starting" ELSE @]

\* r.Labels(): the value of the session-group label
Labels(r) == r.sid

\* the listener goroutine reaches its receive on the notify channel
Listen ==
    /\ ~crashed
    /\ reaper.lst = "starting"
    /\ reaper' = [reaper EXCEPT !.lst = "listening"]
    /\ UNCHANGED <<call, res, images, crashed, uuids, ret>>
    /\ UNCHANGED <<logVars, auxVars>>

\* the owning process dies: the control connection is lost
Crash ==
    /\ ~crashed
    /\ crashed' = TRUE
    /\ UNCHANGED <<call, res, images, reaper, uuids, ret>>
    /\ UNCHANGED <<logVars, auxVars>>

\* a reaper that asks for the removal of whatever the engine holds
CarriesAny(x) == TRUE

\* the filter of the reaper's removal requests: the session-group label
Carries(x) == x.label = Labels(reaper)

\* the reaper's sweep: every resource the engine holds under its session-group
\* label is removed
Swept(x) ==
    IF Carries(x) /\ x.eng # "removed"
    THEN [x EXCEPT !.eng = "removed", !.rm = @ + 1]
    ELSE x

Sweep ==
    /\ crashed
    /\ reaper.conn
    /\ ~reaper.swept
    /\ res' = [i \in 1..Len(res) |-> Swept(res[i])]
    /\ images' = [i \in 1..Len(images) |-> Swept(images[i])]
    /\ reaper' = [reaper EXCEPT !.swept = TRUE]
    /\ UNCHANGED <<call, crashed, uuids, ret>>
    /\ UNCHANGED <<logVars, auxVars>>

\* ---- CreateContainer, RunContainer, CreateNetwork
\* return from the provider call
Return(h, err) ==
    /\ call' = Idle
    /\ ret' = [h |-> h, err |-> err]

\* the step that follows the reaper block
AfterReaper(req) ==
    IF req.kind = "network" THEN "NetworkCreate"
    ELSE IF req.build THEN "BuildImage" ELSE "ContainerCreate"

\* a provider that never asks for the reaper
FirstStepNoReaper(req) == AfterReaper(req)

\* if !req.SkipReaper { r, err := NewReaper(...) ... }
FirstStep(req) == IF req.skip THEN AfterReaper(req) ELSE "NewReaper"

\* sessionID := uuid.New(); var termSignal chan bool
Enter(op, req) ==
    /\ ~crashed
    /\ call = Idle
    /\ uuids < MaxCreates
    /\ uuids' = uuids + 1
    /\ call' = [op |-> op,
                pc |-> FirstStep(req),
                req |-> req, sid |-> uuids + 1, term |-> FALSE,
                label |-> req.label, img |-> 0, c |-> 0]
    /\ UNCHANGED <<res, images, reaper, crashed, ret>>
    /\ UNCHANGED <<logVars, auxVars>>

\* func (p *DockerProvider) CreateContainer(ctx, req) (Container, error)
CreateContainer(req) ==
    /\ req.kind = "container"
    /\ Enter("CreateContainer", req)

\* func (p *DockerProvider) RunContainer(ctx, req): c, err := p.CreateContainer(ctx, req)
RunContainer(req) ==
    /\ req.kind = "container"
    /\ Enter("RunContainer", req)

\* func (p *DockerProvider) CreateNetwork(ctx, req) (Network, error)
CreateNetwork(req) ==
    /\ req.kind = "network"
    /\ Enter("CreateNetwork", req)

\* a provider that goes on after a reaper error
ReaperFailedIgnored(ok) == FALSE

\* if err != nil { return nil, fmt.Errorf("%w: creating reaper failed", err) }
\* and the same test after r.Connect()
ReaperFailed(ok) == ~ok

\* r, err := NewReaper(...); if err != nil { return nil, ... }
ReaperStep ==
    /\ ~crashed
    /\ call.pc = "NewReaper"
    /\ \E ok \in BOOLEAN :
        IF ReaperFailed(ok)
        THEN /\ Return(0, TRUE)
             /\ UNCHANGED reaper
        ELSE /\ reaper' = IF ok THEN NewReaper(reaper, call.sid) ELSE reaper
             /\ call' = [call EXCEPT !.pc = "Connect"]
             /\ UNCHANGED ret
    /\ UNCHANGED <<res, images, crashed, uuids>>
    /\ UNCHANGED <<logVars, auxVars>>

\* a merge that stores the reaper's value whatever the request has
MergeLabelOverwrites(own, v) == v

\* if _, ok := req.Labels[k]; !ok { req.Labels[k] = v }
MergeLabel(own, v) == IF own = 0 THEN v ELSE own

\* the step that follows r.Connect(): ReuseOrCreateContainer makes its handle
AfterConnect(k) ==
    IF k.op = "ReuseOrCreateContainer" THEN "Reuse" ELSE AfterReaper(k.req)

\* termSignal, err = r.Connect(); if err != nil { return nil, ... };
\* for k, v := range r.Labels() { ... }
ConnectStep ==
    /\ ~crashed
    /\ call.pc = "Connect"
    /\ \E ok \in BOOLEAN :
        IF ReaperFailed(ok)
        THEN /\ Return(0, TRUE)
             /\ UNCHANGED reaper
        ELSE /\ reaper' = IF ok THEN Connect(reaper) ELSE reaper
             /\ call' = [call EXCEPT !.term = ok,
                                     !.label = MergeLabel(@, Labels(reaper)),
                                     !.pc = AfterConnect(call)]
             /\ UNCHANGED ret
    /\ UNCHANGED <<res, images, crashed, uuids>>
    /\ UNCHANGED <<logVars, auxVars>>

\* types.ImageBuildOptions{BuildArgs, Dockerfile, Context, Tags, Remove,
\* ForceRemove}: the build request carries no labels
BuildLabel(c) == 0

\* tag, err = p.BuildImage(ctx, &req); if err != nil { return nil, err }
BuildImage ==
    /\ ~crashed
    /\ call.pc = "BuildImage"
    /\ \E ok \in BOOLEAN :
        IF ok
        THEN /\ images' = Append(images, [label |-> BuildLabel(call), eng |-> "created",
                                      rm |-> 0])
             /\ call' = [call EXCEPT !.img = Len(images) + 1, !.pc = "ContainerCreate"]
             /\ UNCHANGED ret
        ELSE /\ Return(0, TRUE)
             /\ UNCHANGED images
    /\ UNCHANGED <<res, reaper, crashed, uuids>>
    /\ UNCHANGED <<logVars, auxVars>>

\* c := &DockerContainer{...} / n := &DockerNetwork{...} and the engine's side of
\* the resource: eng, label, the session-group label of the create request, and
\* rm, the removals of it the engine has carried out; h: the caller has got the
\* handle
Handle(k) ==
    [kind |-> k.req.kind, sid |-> IF k.req.kind = "network" THEN 0 ELSE k.sid,
     term |-> k.term, skip |-> k.req.skip, wait |-> k.req.wait,
     built |-> k.req.build, img |-> k.img, isRunning |-> FALSE,
     eng |-> "created", label |-> k.label, rm |-> 0, h |-> TRUE]

\* the container the engine has created, before CreateContainer has returned
Created(k) == [Handle(k) EXCEPT !.h = FALSE]

\* resp, err := p.client.ContainerCreate(...); RunContainer goes on to c.Start
ContainerCreate ==
    /\ ~crashed
    /\ call.pc = "ContainerCreate"
    /\ \E ok \in BOOLEAN :
        IF ok /\ call.req.more
        THEN /\ res' = Append(res, Created(call))
             /\ call' = [call EXCEPT !.pc = "NetworkConnect", !.c = Len(res) + 1]
             /\ UNCHANGED ret
        ELSE IF ok
        THEN /\ res' = Append(res, Handle(call))
             /\ IF call.op = "RunContainer"
                THEN /\ call' = [call EXCEPT !.pc = "ContainerStart", !.c = Len(res) + 1]
                     /\ UNCHANGED ret
                ELSE Return(Len(res) + 1, FALSE)
        ELSE /\ Return(0, TRUE)
             /\ UNCHANGED res
    /\ UNCHANGED <<images, reaper, crashed, uuids>>
    /\ UNCHANGED <<logVars, auxVars>>

\* a CreateContainer that removes the container when a later step fails
FailedCreateRemoves(rs, c) == [rs EXCEPT ![c].eng = "removed", ![c].rm = @ + 1]

\* if err != nil { return nil, err }: what the engine holds is left as it is
FailedCreate(rs, c) == rs

\* for _, n := range req.Networks[1:] { nw, err := p.GetNetwork(...);
\* if err == nil { err = p.client.NetworkConnect(...); if err != nil { return nil, err } } }
\* ok: every NetworkConnect that was made returned nil
NetworkConnect ==
    /\ ~crashed
    /\ call.pc = "NetworkConnect"
    /\ \E ok \in BOOLEAN :
        IF ok
        THEN /\ call' = [call EXCEPT !.pc = "CopyFileToContainer"]
             /\ UNCHANGED <<res, ret>>
        ELSE /\ Return(0, TRUE)
             /\ res' = FailedCreate(res, call.c)
    /\ UNCHANGED <<images, reaper, crashed, uuids>>
    /\ UNCHANGED <<logVars, auxVars>>

\* c := &DockerContainer{...}; for _, f := range req.Files {
\* err := c.CopyFileToContainer(...); if err != nil { return nil, ... } }; return c, nil
CopyFileToContainer ==
    /\ ~crashed
    /\ call.pc = "CopyFileToContainer"
    /\ \E ok \in BOOLEAN :
        IF ok
        THEN /\ res' = [res EXCEPT ![call.c].h = TRUE]
             /\ IF call.op = "RunContainer"
                THEN /\ call' = [call EXCEPT !.pc = "ContainerStart"]
                     /\ UNCHANGED ret
                ELSE Return(call.c, FALSE)
        ELSE /\ Return(0, TRUE)
             /\ res' = FailedCreate(res, call.c)
    /\ UNCHANGED <<images, reaper, crashed, uuids>>
    /\ UNCHANGED <<logVars, auxVars>>

\* response, err := p.client.NetworkCreate(ctx, req.Name, nc)
NetworkCreate ==
    /\ ~crashed
    /\ call.pc = "NetworkCreate"
    /\ \E ok \in BOOLEAN :
        IF ok
        THEN /\ res' = Append(res, Handle(call))
             /\ Return(Len(res) + 1, FALSE)
        ELSE /\ Return(0, TRUE)
             /\ UNCHANGED res
    /\ UNCHANGED <<images, reaper, crashed, uuids>>
    /\ UNCHANGED <<logVars, auxVars>>

\* ---- Start
IsContainer(c) == c \in 1..Len(res) /\ res[c].kind = "container" /\ res[c].h

IsNetwork(n) == n \in 1..Len(res) /\ res[n].kind = "network"

\* func (c *DockerContainer) Start(ctx context.Context) error
Start(c) ==
    /\ ~crashed
    /\ call = Idle
    /\ IsContainer(c)
    /\ call' = [Idle EXCEPT !.op = "Start", !.pc = "ContainerStart", !.c = c]
    /\ UNCHANGED <<res, images, reaper, crashed, uuids, ret>>
    /\ UNCHANGED <<logVars, auxVars>>

\* a RunContainer that returns nil with the error of Start
ReturnFromStartNoHandle(err) == Return(0, err)

\* RunContainer: if err := c.Start(ctx); err != nil { return c, ... }; return c, nil
ReturnFromStart(err) ==
    Return(IF call.op = "RunContainer" THEN call.c ELSE 0, err)

\* the answers the engine may give to a request on a container
EngineAnswers(c) == IF res[c].eng = "removed" THEN {FALSE} ELSE BOOLEAN

\* a Start that does not look at the error of the start request
StartOutcomeIgnoringError(ok, wait) == IF wait THEN "WaitUntilReady" ELSE "ready"

\* if err := ContainerStart(...); err != nil { return err }
\* if c.WaitingFor != nil { ...WaitUntilReady... }
StartOutcome(ok, wait) ==
    IF ~ok THEN "error" ELSE IF wait THEN "WaitUntilReady" ELSE "ready"

\* if err := c.provider.client.ContainerStart(...); err != nil { return err };
\* without a wait strategy: c.isRunning = true; return nil
ContainerStart ==
    /\ ~crashed
    /\ call.pc = "ContainerStart"
    /\ \E ok \in EngineAnswers(call.c) :
        LET eng == IF ok THEN "started" ELSE res[call.c].eng
        IN CASE StartOutcome(ok, res[call.c].wait) = "error" ->
                  /\ ReturnFromStart(TRUE)
                  /\ UNCHANGED res
             [] StartOutcome(ok, res[call.c].wait) = "WaitUntilReady" ->
                  /\ res' = [res EXCEPT ![call.c].eng = eng]
                  /\ call' = [call EXCEPT !.pc = "WaitUntilReady"]
                  /\ UNCHANGED ret
             [] OTHER ->
                  /\ res' = [res EXCEPT ![call.c].eng = eng,
                                        ![call.c].isRunning = TRUE]
                  /\ ReturnFromStart(FALSE)
    /\ UNCHANGED <<images, reaper, crashed, uuids>>
    /\ UNCHANGED <<logVars, auxVars>>

\* if err := c.WaitingFor.WaitUntilReady(ctx, c); err != nil { return err };
\* c.isRunning = true; return nil
WaitUntilReady ==
    /\ ~crashed
    /\ call.pc = "WaitUntilReady"
    /\ \E ok \in BOOLEAN :
        IF ok
        THEN /\ res' = [res EXCEPT ![call.c].isRunning = TRUE]
             /\ ReturnFromStart(FALSE)
        ELSE /\ ReturnFromStart(TRUE)
             /\ UNCHANGED res
    /\ UNCHANGED <<images, reaper, crashed, uuids>>
    /\ UNCHANGED <<logVars, auxVars>>

\* ---- Stop
\* a Stop that clears the flag whatever the engine answers
StoppedDespiteError(h, ok) ==
    [h EXCEPT !.isRunning = FALSE,
              !.eng = IF ok /\ @ = "started" THEN "exited" ELSE @]

\* the handle and the engine's container after ContainerStop has answered:
\* if err != nil { return err }; c.isRunning = false
Stopped(h, ok) ==
    IF ok
    THEN [h EXCEPT !.isRunning = FALSE,
                   !.eng = IF @ = "started" THEN "exited" ELSE @]
    ELSE h

\* func (c *DockerContainer) Stop(ctx, timeout) error:
\* if err := c.provider.client.ContainerStop(...); err != nil { return err };
\* c.isRunning = false; return nil
Stop(c) ==
    /\ ~crashed
    /\ call = Idle
    /\ IsContainer(c)
    /\ \E ok \in EngineAnswers(c) :
        /\ res' = [res EXCEPT ![c] = Stopped(@, ok)]
        /\ Return(0, ~ok)
    /\ UNCHANGED <<images, reaper, crashed, uuids>>
    /\ UNCHANGED <<logVars, auxVars>>

\* ---- Terminate, DockerNetwork.Remove
\* a send that waits for the receiver
SelectWithoutDefault(h) == h.term /\ reaper.lst = "listening"

\* select { case c.terminationSignal <- true: default: }: the caller goes on
\* whether or not the send can happen
SelectReady(h) == TRUE

\* the send happens iff the channel is not nil and the listener is receiving
Notified(h) == h.term /\ reaper.lst = "listening"

Signal(h) == IF Notified(h) THEN [reaper EXCEPT !.lst = "done"] ELSE reaper

\* a Terminate that leaves the running flag as it was
TerminatedStillRunning(h) == [h EXCEPT !.sid = 0]

\* c.sessionID = uuid.UUID{}; c.isRunning = false
Terminated(h) == [h EXCEPT !.sid = 0, !.isRunning = FALSE]

\* a Terminate that clears the handle before it looks at the errors
TerminateFailedClears(h) == Terminated(h)

\* if err != nil { return err }, after ContainerRemove, ImageRemove and Close:
\* the handle's fields are not written
TerminateFailed(h) == h

\* func (c *DockerContainer) Terminate(ctx context.Context) error
Terminate(c) ==
    /\ ~crashed
    /\ call = Idle
    /\ IsContainer(c)
    /\ SelectReady(res[c])
    /\ reaper' = Signal(res[c])
    /\ \E rm \in EngineAnswers(c),
          im \in IF res[c].built THEN BOOLEAN ELSE {TRUE},
          cl \in BOOLEAN :
        LET removed == [res EXCEPT ![c].eng = "removed", ![c].rm = @ + 1]
        IN IF ~rm
           THEN /\ Return(0, TRUE)
                /\ res' = [res EXCEPT ![c] = TerminateFailed(@)]
                /\ UNCHANGED images
           ELSE IF res[c].built /\ ~im
           THEN /\ Return(0, TRUE)
                /\ res' = [removed EXCEPT ![c] = TerminateFailed(@)]
                /\ UNCHANGED images
           ELSE /\ images' = IF res[c].built
                             THEN [images EXCEPT ![res[c].img].eng = "removed",
                                                 ![res[c].img].rm = @ + 1]
                             ELSE images
                /\ IF cl
                   THEN /\ res' = [removed EXCEPT ![c] = Terminated(@)]
                        /\ Return(0, FALSE)
                   ELSE /\ res' = [removed EXCEPT ![c] = TerminateFailed(@)]
                        /\ Return(0, TRUE)
    /\ UNCHANGED <<crashed, uuids>>
    /\ UNCHANGED <<logVars, auxVars>>

\* func (n *DockerNetwork) Remove(ctx context.Context) error
Remove(n) ==
    /\ ~crashed
    /\ call = Idle
    /\ IsNetwork(n)
    /\ SelectReady(res[n])
    /\ reaper' = Signal(res[n])
    /\ \E ok \in EngineAnswers(n) :
        /\ res' = IF ok
                  THEN [res EXCEPT ![n].eng = "removed", ![n].rm = @ + 1]
                  ELSE res
        /\ Return(0, ~ok)
    /\ UNCHANGED <<images, crashed, uuids>>
    /\ UNCHANGED <<logVars, auxVars>>

\* ---- the lifecycle
\* CR, NR: the container and network requests of the run
Creation(CR, NR) ==
    \/ \E req \in CR : CreateContainer(req)
    \/ \E req \in NR : CreateNetwork(req)
    \/ ReaperStep
    \/ ConnectStep
    \/ BuildImage
    \/ ContainerCreate
    \/ NetworkConnect
    \/ CopyFileToContainer
    \/ NetworkCreate

Starting(CR) ==
    \/ \E req \in CR : RunContainer(req)
    \/ \E c \in 1..MaxCreates : Start(c)
    \/ \E c \in 1..MaxCreates : Stop(c)
    \/ ContainerStart
    \/ WaitUntilReady

Removal ==
    \/ \E c \in 1..MaxCreates : Terminate(c)
    \/ \E n \in 1..MaxCreates : Remove(n)
    \/ Listen

\* Every request and every call; the owning process may die at any moment, and
\* the reaper then sweeps.
LifeNext ==
    \/ Creation(ContainerRequests, NetworkRequests)
    \/ Starting(ContainerRequests)
    \/ Removal
    \/ Crash
    \/ Sweep

LifeSpec == Init /\ [][LifeNext]_vars

\* Creation and removal of containers and networks with and without the reaper:
\* no container is started, the owning process lives, the requests carry no
\* label of the caller's own.
ReaperContainerRequests ==
    {req \in ContainerRequests : req.label = 0 /\ ~req.wait}

ReaperNetworkRequests == {req \in NetworkRequests : req.label = 0}

ReaperNext ==
    \/ Creation(ReaperContainerRequests, ReaperNetworkRequests)
    \/ Removal

ReaperSpec == Init /\ [][ReaperNext]_vars

\* Creation, start and termination of containers without the reaper.
StartRequests ==
    {req \in ContainerRequests : req.label = 0 /\ req.skip /\ ~req.more}

StartNext ==
    \/ \E req \in StartRequests : CreateContainer(req)
    \/ BuildImage
    \/ ContainerCreate
    \/ Starting(StartRequests)
    \/ \E c \in 1..MaxCreates : Terminate(c)

StartSpec == Init /\ [][StartNext]_vars

\* ------------------------------------------------------ attemptToPullImage
\* The retry loop is backoff.Retry over an exponential back-off bound to the
\* caller's context: one p.client.ImagePull per round, a timer between rounds,
\* no further round once the back-off's maximum elapsed time would be passed.
\* Time is counted in ticks of the shortest back-off interval.
PullAnswers == {"ok", "notfound", "other"}

\* the back-off intervals the next timer may be set to
Intervals == {1, 2}

\* what ImagePull returns: the context's error once the context is cancelled
ImagePullResults(cancelled) == IF cancelled THEN {"ctx"} ELSE PullAnswers

\* an error test that takes no error for permanent
PermanentNever(ans) == FALSE

\* if _, ok := err.(errdefs.ErrNotFound); ok { return backoff.Permanent(err) }
Permanent(ans) == ans = "notfound"

\* NextBackOff of the back-off with context: Stop when the context is done or
\* the next interval would pass the maximum elapsed time
Stops(p, d) == p.cancelled \/ p.now + d > MaxElapsedTime

\* func (p *DockerProvider) attemptToPullImage(ctx, tag, pullOpt) error:
\* err = backoff.Retry(func() error { pull, err = p.client.ImagePull(...) ... })
AttemptToPullImage ==
    /\ pulling.pc = "idle"
    /\ pulling' = [pulling EXCEPT !.pc = "ImagePull", !.n = 1,
                                  !.late = IF pulling.cancelled THEN 1 ELSE 0]
    /\ UNCHANGED exceptPulling

\* the caller's context is cancelled
CancelPull ==
    /\ pulling.pc \in {"idle", "ImagePull", "wait"}
    /\ ~pulling.cancelled
    /\ pulling' = [pulling EXCEPT !.cancelled = TRUE]
    /\ UNCHANGED exceptPulling

\* time passes while a pull request is in flight or the back-off timer runs
TickPull ==
    /\ \/ pulling.pc = "ImagePull" /\ pulling.now <= MaxElapsedTime
       \/ pulling.pc = "wait" /\ pulling.now < pulling.wake
    /\ pulling' = [pulling EXCEPT !.now = @ + 1]
    /\ UNCHANGED exceptPulling

\* pull, err = p.client.ImagePull(ctx, tag, pullOpt) returns, and backoff.Retry
\* decides: nil ends the loop, a permanent error ends it, any other error
\* starts the timer unless the back-off stops
ImagePull ==
    /\ pulling.pc = "ImagePull"
    /\ \E ans \in ImagePullResults(pulling.cancelled), d \in Intervals :
        pulling' =
            IF ans = "ok"
            THEN [pulling EXCEPT !.last = ans, !.pc = "ReadAll"]
            ELSE IF Permanent(ans)
            THEN [pulling EXCEPT !.last = ans, !.pc = "returned", !.err = ans]
            ELSE IF Stops(pulling, d)
            THEN [pulling EXCEPT !.last = ans, !.pc = "returned",
                                 !.err = IF pulling.cancelled THEN "ctx" ELSE ans]
            ELSE [pulling EXCEPT !.last = ans, !.pc = "wait", !.wake = pulling.now + d]
    /\ UNCHANGED exceptPulling

\* select { case <-ctx.Done(): return ctx.Err(); case <-t.C(): }: the timer
\* has fired and the next round begins
TimerFires ==
    /\ pulling.pc = "wait"
    /\ pulling.now >= pulling.wake
    /\ pulling' = [pulling EXCEPT !.pc = "ImagePull", !.n = @ + 1,
                                  !.late = IF pulling.cancelled THEN @ + 1 ELSE @]
    /\ UNCHANGED exceptPulling

\* the context is done while the timer runs
ContextDone ==
    /\ pulling.pc = "wait"
    /\ pulling.cancelled
    /\ pulling' = [pulling EXCEPT !.pc = "returned", !.err = "ctx"]
    /\ UNCHANGED exceptPulling

\* defer pull.Close(); _, err = io.ReadAll(pull); return err
ReadAll ==
    /\ pulling.pc = "ReadAll"
    /\ \E ok \in BOOLEAN :
        pulling' = [pulling EXCEPT !.pc = "returned",
                                   !.err = IF ok THEN "nil" ELSE "read"]
    /\ UNCHANGED exceptPulling

PullNext ==
    \/ AttemptToPullImage
    \/ CancelPull
    \/ TickPull
    \/ ImagePull
    \/ TimerFires
    \/ ContextDone
    \/ ReadAll

PullSpec == Init /\ [][PullNext]_vars

\* Creation and removal with the reaper, the death of the owning process and
\* the reaper's sweep: no container is started; requests with and without a
\* session-group label of the caller's own.
SweepContainerRequests == {req \in ContainerRequests : ~req.wait}

SweepNext ==
    \/ Creation(SweepContainerRequests, NetworkRequests)
    \/ Removal
    \/ Crash
    \/ Sweep

SweepSpec == Init /\ [][SweepNext]_vars

\* -------------------------------------------------------------------- Logs
\* The container's log as the engine streams it without Follow: frames of a
\* header and a payload, then the end of the stream.
streamHeaderSize == 8
NewLine == 10
CarriageReturn == 13

\* k letters
Letters(k) == [i \in 1..k |-> 96 + i]

\* a line of k letters, with its line end
Line(k) == Letters(k) \o <<NewLine>>

\* what one write of the container may hold: a short line, a line longer than
\* the read buffer once the header is in front of it, a line of nine letters,
\* two lines, a line not yet ended
LogPayloads ==
    {Line(1), Line(BufferSize - HeaderSize + 1), Line(9), Line(1) \o Line(8),
     Letters(2)}

LogFrames == [tag : {1, 2}, payload : LogPayloads]

LogInputs == UNION {[1..n -> LogFrames] : n \in 0..MaxLogFrames}

RECURSIVE StreamOf(_)
StreamOf(fs) == IF fs = <<>> THEN <<>> ELSE Encode(Head(fs)) \o StreamOf(Tail(fs))

RECURSIVE PayloadsOf(_)
PayloadsOf(fs) ==
    IF fs = <<>> THEN <<>> ELSE Head(fs).payload \o PayloadsOf(Tail(fs))

\* index of the first line end of s within its first n bytes, 0 if none
FirstNewLine(s, n) ==
    LET at == {i \in 1..Min(Len(s), n) : s[i] = NewLine}
    IN IF at = {} THEN 0 ELSE CHOOSE i \in at : \A j \in at : i <= j

\* the line without its line end: "\n" or "\r\n"
DropLineEnd(l) ==
    LET n == Len(l) - 1
    IN IF n >= 1 /\ l[n] = CarriageReturn THEN SubSeq(l, 1, n - 1) ELSE SubSeq(l, 1, n)

\* line, isPrefix, err = r.ReadLine() of r := bufio.NewReader(rc), on the bytes
\* s not yet read: the line up to the first line end in the buffer; a full
\* buffer without a line end as a prefix; the rest of the stream at its end;
\* io.EOF when nothing is left. n is the number of bytes consumed.
ReadLine(s) ==
    LET k == FirstNewLine(s, BufferSize)
    IN IF s = <<>>
       THEN [line |-> <<>>, isPrefix |-> FALSE, err |-> TRUE, n |-> 0]
       ELSE IF k > 0
       THEN [line |-> DropLineEnd(SubSeq(s, 1, k)), isPrefix |-> FALSE,
             err |-> FALSE, n |-> k]
       ELSE IF Len(s) >= BufferSize
       THEN IF s[BufferSize] = CarriageReturn
            THEN [line |-> SubSeq(s, 1, BufferSize - 1), isPrefix |-> TRUE,
                  err |-> FALSE, n |-> BufferSize - 1]
            ELSE [line |-> SubSeq(s, 1, BufferSize), isPrefix |-> TRUE,
                  err |-> FALSE, n |-> BufferSize]
       ELSE [line |-> s, isPrefix |-> FALSE, err |-> FALSE, n |-> Len(s)]

\* if lineStarted && len(line) >= streamHeaderSize
Trims(l, lineStarted) == lineStarted /\ Len(l) >= streamHeaderSize

\* line = line[streamHeaderSize:]
Trim(l) == SubSeq(l, streamHeaderSize + 1, Len(l))

\* func (c *DockerContainer) Logs(ctx) (io.ReadCloser, error):
\* rc, err := c.provider.client.ContainerLogs(ctx, c.ID, options);
\* pr, pw := io.Pipe(); r := bufio.NewReader(rc); go func() { ... }()
Logs(fs) ==
    /\ reading.pc = "idle"
    /\ \E ok \in BOOLEAN :
        reading' = IF ok
                   THEN [reading EXCEPT !.pc = "ReadLine", !.frames = fs]
                   ELSE [reading EXCEPT !.pc = "failed"]
    /\ UNCHANGED exceptReading

\* one round of the goroutine's loop: ReadLine, trim, pw.Write(line), the line
\* end unless the line goes on, pw.CloseWithError(err) at the end of the stream
Round(rd) ==
    LET s == StreamOf(rd.frames)
        r == ReadLine(SubSeq(s, rd.pos + 1, Len(s)))
        trims == Trims(r.line, rd.lineStarted)
        line == IF trims THEN Trim(r.line) ELSE r.line
    IN [rd EXCEPT
           !.pos = @ + r.n,
           !.isPrefix = r.isPrefix,
           !.lineStarted = IF ~r.isPrefix THEN TRUE
                           ELSE IF trims THEN FALSE ELSE @,
           !.out = @ \o line \o (IF r.isPrefix THEN <<>> ELSE <<NewLine>>),
           !.pc = IF r.err THEN "closed" ELSE "ReadLine"]

CopyLine ==
    /\ reading.pc = "ReadLine"
    /\ reading' = Round(reading)
    /\ UNCHANGED exceptReading

\* everything the reader of Logs yields for the log fs: ioutil.ReadAll(reader)
RECURSIVE Rounds(_)
Rounds(rd) == IF rd.pc = "closed" THEN rd.out ELSE Rounds(Round(rd))

ReadAllLogs(fs) == Rounds([NotReading EXCEPT !.pc = "ReadLine", !.frames = fs])

LogsNext ==
    \/ \E fs \in LogInputs : Logs(fs)
    \/ CopyLine

LogsSpec == Init /\ [][LogsNext]_vars

\* ---------------------------------------------------------- wait strategies
\* The strategies behind c.WaitingFor.WaitUntilReady(ctx, c), from the
\* specification of the wait strategy engine: Pending -> Polling -> Ready or
\* Failed, one probe per poll interval, the startup timeout and the caller's
\* context looked at before every probe.  Time is counted in poll intervals.
\* The log strategy reads the container's log through c.Logs.

\* the text the log strategy looks for: "aa"
Target == <<97, 97>>

\* what one write of the container may hold: a line that holds the target, a
\* line not yet ended, a line of 96 letters
WaitPayloads == {Target \o <<NewLine>>, Letters(2), Line(96)}

WaitFrames == [tag : {1}, payload : WaitPayloads]

Occurrences == {1, 2}

\* the lines of the text s
RECURSIVE SplitLines(_)
SplitLines(s) ==
    LET k == FirstNewLine(s, Len(s))
    IN IF s = <<>> THEN <<>>
       ELSE IF k = 0 THEN <<s>>
       ELSE <<SubSeq(s, 1, k - 1)>> \o SplitLines(SubSeq(s, k + 1, Len(s)))

Contains(l, t) ==
    \E i \in 1..(Len(l) - Len(t) + 1) : SubSeq(l, i, i + Len(t) - 1) = t

\* the number of lines of the text s that hold the target
Matching(s) ==
    LET ls == SplitLines(s)
    IN Cardinality({i \in 1..Len(ls) : Contains(ls[i], Target)})

\* the log strategy's probe: the log is re-read from its beginning through
\* c.Logs and the lines that hold the target are counted
LogProbe(w) == Matching(ReadAllLogs(w.log)) >= w.occurrence

\* the HTTP strategy's probe: a refused or failed connection is not ready yet,
\* a response is ready if the status predicate accepts its status
HTTPProbe(w) == w.server = "accepted"

\* a strategy that probes whatever the clock and the context say
MayProbeAlways(w) == TRUE

\* no probe once the context is cancelled or the startup timeout has elapsed
MayProbe(w) == ~w.cancelled /\ w.now < StartupTimeout

\* a strategy that takes a refused connection for an error
HTTPFatalRefused(w) == w.server = "refused"

\* no answer of the server is an error of the wait
HTTPFatal(w) == FALSE

\* WaitUntilReady(ctx, c) of a log strategy with occurrence n
LogWaitUntilReady(n) ==
    /\ waiting.pc = "Pending"
    /\ waiting' = [waiting EXCEPT !.pc = "Polling", !.kind = "log", !.occurrence = n]
    /\ UNCHANGED exceptWaiting

\* WaitUntilReady(ctx, c) of an HTTP strategy
HTTPWaitUntilReady ==
    /\ waiting.pc = "Pending"
    /\ waiting' = [waiting EXCEPT !.pc = "Polling", !.kind = "http"]
    /\ UNCHANGED exceptWaiting

\* the container writes to its log
WriteLog(f) ==
    /\ waiting.pc \in {"Pending", "Polling"}
    /\ waiting.kind # "http"
    /\ Len(waiting.log) < MaxLogFrames
    /\ waiting' = [waiting EXCEPT !.log = Append(@, f)]
    /\ UNCHANGED exceptWaiting

\* the server in the container comes up, goes down or changes its answer
ServerTurns(s) ==
    /\ waiting.pc \in {"Pending", "Polling"}
    /\ waiting.kind # "log"
    /\ waiting.server # s
    /\ waiting' = [waiting EXCEPT !.server = s]
    /\ UNCHANGED exceptWaiting

\* the caller's context is cancelled
CancelWait ==
    /\ waiting.pc \in {"Pending", "Polling"}
    /\ ~waiting.cancelled
    /\ waiting' = [waiting EXCEPT !.cancelled = TRUE]
    /\ UNCHANGED exceptWaiting

\* one poll interval passes
TickWait ==
    /\ waiting.pc = "Polling"
    /\ waiting.now < StartupTimeout
    /\ waiting' = [waiting EXCEPT !.now = @ + 1, !.slept = TRUE]
    /\ UNCHANGED exceptWaiting

\* one readiness probe
Probe ==
    /\ waiting.pc = "Polling"
    /\ waiting.slept
    /\ MayProbe(waiting)
    /\ LET ready == IF waiting.kind = "log" THEN LogProbe(waiting)
                    ELSE HTTPProbe(waiting)
           fatal == waiting.kind = "http" /\ HTTPFatal(waiting)
           late == waiting.cancelled \/ waiting.now >= StartupTimeout
       IN waiting' =
              [waiting EXCEPT
                  !.probes = Min(@ + 1, StartupTimeout + 1),
                  !.late = IF late THEN 1 ELSE @,
                  !.slept = FALSE,
                  !.pc = IF fatal THEN "Failed" ELSE IF ready THEN "Ready" ELSE @,
                  !.err = IF fatal THEN "refused" ELSE @]
    /\ UNCHANGED exceptWaiting

\* the context is cancelled or the startup timeout has elapsed: Failed
GiveUp ==
    /\ waiting.pc = "Polling"
    /\ waiting.cancelled \/ waiting.now >= StartupTimeout
    /\ waiting' = [waiting EXCEPT
                      !.pc = "Failed",
                      !.err = IF waiting.now >= StartupTimeout
                              THEN "timeout" ELSE "cancelled"]
    /\ UNCHANGED exceptWaiting

\* the loop of either strategy
Polling ==
    \/ TickWait
    \/ Probe
    \/ GiveUp

WaitNext ==
    \/ \E n \in Occurrences : LogWaitUntilReady(n)
    \/ HTTPWaitUntilReady
    \/ \E f \in WaitFrames : WriteLog(f)
    \/ \E s \in {"refused", "rejected", "accepted"} : ServerTurns(s)
    \/ CancelWait
    \/ Polling

WaitSpec == Init /\ [][WaitNext]_vars

\* a log strategy under a context that is never cancelled
LogWaitNext ==
    \/ \E n \in Occurrences : LogWaitUntilReady(n)
    \/ \E f \in WaitFrames : WriteLog(f)
    \/ Polling

LogWaitSpec == Init /\ [][LogWaitNext]_vars

\* the loop of a strategy goes on: it looks at the context and the clock again
WaitFairSpec == WaitSpec /\ WF_vars(GiveUp)

\* ----------------------------------------------------- the labels of a request
\* Label maps over the keys 1..MaxKeys: 0 for a key the map does not have,
\* otherwise the value.  Absent stands for a nil map as well: req.Labels is made
\* an empty map before anything is stored in it.
LabelKeys == 1..MaxKeys

LabelValues == {1, 2}

LabelMaps == [LabelKeys -> {0} \cup LabelValues]

KeysOf(m) == {k \in LabelKeys : m[k] # 0}

\* CreateContainer / CreateNetwork with the caller's req.Labels, past r.Connect():
\* for k, v := range r.Labels() starts
RangeLabels(own, rl) ==
    /\ merging.pc = "idle"
    /\ merging' = [pc |-> "range", own |-> own, labels |-> own, reaper |-> rl,
                   todo |-> KeysOf(rl), sent |-> [k \in LabelKeys |-> 0]]
    /\ UNCHANGED exceptMerging

\* one round of the range, the keys in any order:
\* if _, ok := req.Labels[k]; !ok { req.Labels[k] = v }
MergeLabels ==
    /\ merging.pc = "range"
    /\ \E k \in merging.todo :
        merging' = [merging EXCEPT
                       !.labels[k] = MergeLabel(@, merging.reaper[k]),
                       !.todo = @ \ {k}]
    /\ UNCHANGED exceptMerging

\* the create request: Labels: req.Labels in the container's config, and
\* nc.Labels, which is the map req.Labels itself, for a network
SendLabels ==
    /\ merging.pc = "range"
    /\ merging.todo = {}
    /\ merging' = [merging EXCEPT !.pc = "sent", !.sent = merging.labels]
    /\ UNCHANGED exceptMerging

MergeNext ==
    \/ \E own \in LabelMaps, rl \in LabelMaps : RangeLabels(own, rl)
    \/ MergeLabels
    \/ SendLabels

MergeSpec == Init /\ [][MergeNext]_vars

\* ------------------------------------------------------- the pipe of Logs
\* The goroutine of Logs and the caller that holds the returned reader, with
\* the lines of the stream counted and not spelled out.  io.Pipe has no buffer:
\* pw.Write, of an empty slice too, parks the goroutine until a Read of the
\* other end has taken what it offers or that end is closed.

\* pr, pw := io.Pipe(); r := bufio.NewReader(rc); go func() {...}(); return pr, nil
\* n: the reads r.ReadLine() will answer before the stream is at its end
Pipe(n) ==
    /\ piping.pc = "idle"
    /\ piping' = [NotPiping EXCEPT !.pc = "ReadLine", !.left = n,
                                   !.reader = "reading"]
    /\ UNCHANGED exceptPiping

\* line, isPrefix, err = r.ReadLine(): a line, the prefix of a line longer than
\* the buffer, io.EOF at the end of the stream, or another error of rc
PipeReadLine ==
    /\ piping.pc = "ReadLine"
    /\ \/ /\ piping.left > 0
          /\ \E isPrefix \in BOOLEAN :
              piping' = [piping EXCEPT !.left = @ - 1, !.isPrefix = isPrefix,
                                       !.pc = "Write"]
       \/ /\ piping.left = 0
          /\ piping' = [piping EXCEPT !.isPrefix = FALSE, !.err = "EOF",
                                      !.pc = "Write"]
       \/ /\ piping' = [piping EXCEPT !.isPrefix = FALSE, !.err = "other",
                                      !.pc = "Write"]
    /\ UNCHANGED exceptPiping

\* a goroutine that goes on after a Write returned an error
AfterWriteIgnoringError(errW, next) == next

\* _, errW := pw.Write(...); if errW != nil { return }
AfterWrite(errW, next) == IF errW THEN "returned" ELSE next

\* if err != nil { _ = pw.CloseWithError(err); return }; for err == nil
AfterLine(err) == IF err # "nil" THEN "CloseWithError" ELSE "ReadLine"

\* where the goroutine goes when its Write has returned errW:
\* pw.Write(line), then pw.Write([]byte("\n")) if !isPrefix
Written(p, errW) ==
    IF p.pc = "Write" /\ ~p.isPrefix
    THEN AfterWrite(errW, "WriteNewLine")
    ELSE AfterWrite(errW, AfterLine(p.err))

\* a Read of the caller takes what the parked Write offers; the Write returns nil
PipeRead ==
    /\ piping.pc \in {"Write", "WriteNewLine"}
    /\ piping.reader = "reading"
    /\ piping' = [piping EXCEPT !.pc = Written(piping, FALSE), !.wrote = @ + 1,
                                !.got = @ + 1]
    /\ UNCHANGED exceptPiping

\* the read end is closed: the Write returns io.ErrClosedPipe
PipeWriteFails ==
    /\ piping.pc \in {"Write", "WriteNewLine"}
    /\ piping.reader = "closed"
    /\ piping' = [piping EXCEPT !.pc = Written(piping, TRUE)]
    /\ UNCHANGED exceptPiping

\* _ = pw.CloseWithError(err); return
CloseWithError ==
    /\ piping.pc = "CloseWithError"
    /\ piping' = [piping EXCEPT !.werr = piping.err, !.pc = "returned"]
    /\ UNCHANGED exceptPiping

\* a Read of the caller on the pipe the goroutine has closed returns its error
PipeReadError ==
    /\ piping.reader = "reading"
    /\ piping.werr # "nil"
    /\ piping' = [piping EXCEPT !.reader = "done", !.rerr = piping.werr]
    /\ UNCHANGED exceptPiping

\* the caller closes the reader Logs returned
PipeClose ==
    /\ piping.reader = "reading"
    /\ piping' = [piping EXCEPT !.reader = "closed"]
    /\ UNCHANGED exceptPiping

\* the caller stops reading and does not close the reader
PipeAbandon ==
    /\ piping.reader = "reading"
    /\ piping' = [piping EXCEPT !.reader = "abandoned"]
    /\ UNCHANGED exceptPiping

PipeNext ==
    \/ \E n \in 0..MaxLines : Pipe(n)
    \/ PipeReadLine
    \/ PipeRead
    \/ PipeWriteFails
    \/ CloseWithError
    \/ PipeReadError
    \/ PipeClose
    \/ PipeAbandon

\* The goroutine runs whenever it can; a caller that is reading goes on reading
\* until it closes the reader or stops.
PipeFairSpec ==
    /\ Init
    /\ [][PipeNext]_vars
    /\ WF_vars(PipeReadLine)
    /\ WF_vars(PipeRead)
    /\ WF_vars(PipeWriteFails)
    /\ WF_vars(CloseWithError)
    /\ WF_vars(PipeReadError)

\* --------------------------------------------------- ReuseOrCreateContainer
\* req.Name is modelled by the container it names: nm = 0 for the empty name,
\* nm = k for the name of the k-th container of the run, created or yet to be.
\* The container list is asked for without All: the engine lists the containers
\* that are up, and gives their State.
ListedStates == {"running", "paused"}

\* the engine lists a container of the name
IsListed(nm) ==
    /\ nm \in 1..Len(res)
    /\ res[nm].kind = "container"
    /\ res[nm].eng = "started"

\* func (p *DockerProvider) ReuseOrCreateContainer(ctx, req) (Container, error):
\* c, err := p.findContainerByName(ctx, req.Name)
ReuseOrCreateContainer(req, nm) ==
    /\ ~crashed
    /\ call = Idle
    /\ uuids < MaxCreates
    /\ req.kind = "container"
    /\ call' = [Idle EXCEPT !.op = "ReuseOrCreateContainer", !.pc = "ContainerList",
                            !.req = req, !.c = nm]
    /\ reusing' = NotReusing
    /\ UNCHANGED <<res, images, reaper, crashed, uuids, ret>>
    /\ UNCHANGED exceptReusing

\* return p.CreateContainer(ctx, req): the call is a CreateContainer call from
\* here on
Delegated(req) ==
    [op |-> "CreateContainer", pc |-> FirstStep(req), req |-> req,
     sid |-> uuids + 1, term |-> FALSE, label |-> req.label, img |-> 0, c |-> 0]

\* a handle that is running whatever the engine says of the container
IsRunningAlways(State) == TRUE

\* isRunning: c.State == "running"
IsRunningOf(State) == State = "running"

\* findContainerByName: if name == "" { return nil, nil }; ContainerList with the
\* name filter; if err != nil { return nil, err }; &containers[0] or nil.
\* ReuseOrCreateContainer: if c == nil { return p.CreateContainer(ctx, req) };
\* sessionID := uuid.New(); if !req.SkipReaper { ... }
ContainerList ==
    /\ ~crashed
    /\ call.pc = "ContainerList"
    /\ \E ok \in IF call.c = 0 THEN {TRUE} ELSE BOOLEAN, State \in ListedStates :
        IF ~ok
        THEN /\ Return(0, TRUE)
             /\ UNCHANGED <<uuids, reusing>>
        ELSE IF call.c = 0 \/ ~IsListed(call.c)
        THEN /\ call' = Delegated(call.req)
             /\ uuids' = uuids + 1
             /\ UNCHANGED <<ret, reusing>>
        ELSE /\ call' = [call EXCEPT
                            !.sid = uuids + 1,
                            !.pc = IF call.req.skip THEN "Reuse" ELSE "NewReaper"]
             /\ uuids' = uuids + 1
             /\ reusing' = [reusing EXCEPT !.State = State]
             /\ UNCHANGED ret
    /\ UNCHANGED <<res, images, reaper, crashed>>
    /\ UNCHANGED exceptReusing

\* dc := &DockerContainer{ID: c.ID, ..., isRunning: c.State == "running"};
\* return dc, nil
Reuse ==
    /\ ~crashed
    /\ call.pc = "Reuse"
    /\ reusing' = [reusing EXCEPT
                     !.dc = [ID |-> call.c, sessionID |-> call.sid,
                             terminationSignal |-> call.term,
                             skipReaper |-> call.req.skip,
                             isRunning |-> IsRunningOf(reusing.State)]]
    /\ Return(call.c, FALSE)
    /\ UNCHANGED <<res, images, reaper, crashed, uuids>>
    /\ UNCHANGED exceptReusing

\* Containers made, started and stopped, found again by name or not; no image
\* build, no wait strategy, no label of the caller's own.
ReuseRequests ==
    {req \in ContainerRequests :
        req.label = 0 /\ ~req.wait /\ ~req.build /\ ~req.more}

ReuseNext ==
    \/ \E req \in ReuseRequests, nm \in 0..MaxCreates : ReuseOrCreateContainer(req, nm)
    \/ ContainerList
    \/ ReaperStep
    \/ ConnectStep
    \/ Reuse
    \/ ContainerCreate
    \/ \E c \in 1..MaxCreates : Start(c)
    \/ \E c \in 1..MaxCreates : Stop(c)
    \/ ContainerStart

ReuseSpec == Init /\ [][ReuseNext]_vars

\* ------------------------------------------- initContainerEnvInformation
\* what the function handed to initContainerEnvOnce.Do may meet: an error of
\* isConnectedToRemoteDaemon, a remote daemon, an error of GetMounts, no mount
\* of /etc/hostname, no container id in its root, an error of ContainerInspect,
\* or the inspection of the container the process runs in
InitOutcomes ==
    {"remoteErr", "remote", "mountsErr", "noMount", "noID", "inspectErr", "inspected"}

\* the outcomes in which the function sets initErr
InitErrors == {"remoteErr", "mountsErr", "noMount", "noID", "inspectErr"}

\* values of endpointHostCache: empty (0), a gateway of the container's
\* networks, the host name of the daemon's URL, "localhost"
Gateway == 1
Hostname == 2
Localhost == 3

\* gateways of info.NetworkSettings.Networks: none or one
Gateways == {0, Gateway}

\* url.Scheme of p.client.DaemonHost()
Schemes == {"tcp", "unix"}

\* the provider is made: p.runningInContainer and the daemon's URL are fixed
NewDockerProvider(inContainer, scheme) ==
    /\ env.scheme = "none"
    /\ env' = [env EXCEPT !.runningInContainer = inContainer, !.scheme = scheme]
    /\ UNCHANGED exceptEnv

\* var initErr error; p.initContainerEnvOnce.Do(func() {...}); return initErr:
\* the provider after the call, and in initErr the error the call returns
InitContainerEnvInformation(e, outcome, gw) ==
    IF e.done
    THEN [e |-> e, initErr |-> "nil"]
    ELSE [e |-> [e EXCEPT
                    !.done = TRUE,
                    !.runs = @ + 1,
                    !.failed = IF outcome \in InitErrors THEN outcome ELSE "nil",
                    !.endpointHostCache = IF outcome = "inspected" /\ gw # 0
                                          THEN gw ELSE @],
          initErr |-> IF outcome \in InitErrors THEN outcome ELSE "nil"]

\* the call returns
Returned(e, op, host, err) ==
    [e EXCEPT !.calls = @ + 1, !.ret = [op |-> op, host |-> host, err |-> err]]

\* func (p *DockerProvider) GetGatewayIP(ctx) (string, error):
\* if err := p.initContainerEnvInformation(ctx); err != nil { return "", err };
\* return p.endpointHostCache, nil
GetGatewayIP ==
    /\ env.scheme # "none"
    /\ env.calls < MaxCalls
    /\ \E outcome \in InitOutcomes, gw \in Gateways :
        LET i == InitContainerEnvInformation(env, outcome, gw)
        IN env' = Returned(i.e, "GetGatewayIP",
                           IF i.initErr # "nil" THEN 0 ELSE i.e.endpointHostCache,
                           i.initErr)
    /\ UNCHANGED exceptEnv

\* func (p *DockerProvider) daemonHost(ctx) (string, error), TC_HOST not set:
\* the cache if it is not empty; the URL's host name for tcp; for unix
\* initContainerEnvInformation in a container and "localhost" outside of one
DaemonHost ==
    /\ env.scheme # "none"
    /\ env.calls < MaxCalls
    /\ \E outcome \in InitOutcomes, gw \in Gateways :
        LET i == InitContainerEnvInformation(env, outcome, gw)
        IN env' =
            IF env.endpointHostCache # 0
            THEN Returned(env, "daemonHost", env.endpointHostCache, "nil")
            ELSE IF env.scheme = "tcp"
            THEN Returned([env EXCEPT !.endpointHostCache = Hostname],
                          "daemonHost", Hostname, "nil")
            ELSE IF env.runningInContainer
            THEN Returned(i.e, "daemonHost",
                          IF i.initErr # "nil" THEN 0 ELSE i.e.endpointHostCache,
                          i.initErr)
            ELSE Returned([env EXCEPT !.endpointHostCache = Localhost],
                          "daemonHost", Localhost, "nil")
    /\ UNCHANGED exceptEnv

EnvNext ==
    \/ \E inContainer \in BOOLEAN, scheme \in Schemes :
        NewDockerProvider(inContainer, scheme)
    \/ GetGatewayIP
    \/ DaemonHost

EnvSpec == Init /\ [][EnvNext]_vars

\* ================================================================= claims
NoWorkerAlive == \A w \in Workers : ~Alive(w)

\* the frames of worker w's stream it has not begun to read
Ahead(w, i) ==
    /\ i \in (worker[w].since + 1)..Len(log)
    /\ FrameStart(worker[w].since, i) >= worker[w].pos

\* the Accept calls consumer c got for frame i
Got(c, i) == \E j \in 1..Len(accepted[c]) : accepted[c][j] = i

\* C1: StopLogProducer returns without blocking when no log producer was ever
\* started and when the producer has already been stopped: a caller is never
\* parked in the send with no worker left to receive.
C1_StopLogProducerReturns == stopProducer = 1 => ~NoWorkerAlive

\* C2: once the worker has received the stop signal (it has then closed its
\* stream and exited), no frame is delivered to any consumer any more.
C2_NoDeliveryAfterStop ==
    [][(\E w \in Workers : worker[w].pc = "exited") => accepted' = accepted]_vars

\* C3: while the log producer is started and not stopped, every non-empty frame
\* the engine emits is eventually delivered to every registered consumer (runs in
\* which the network layer closed the connection are left to C4).
C3_EveryFrameDelivered ==
    \A i \in 1..MaxFrames, c \in 1..MaxConsumers :
        (/\ Alive(1)
         /\ Ahead(1, i)
         /\ log[i].payload # <<>>
         /\ c <= Len(consumers))
        ~> (Got(c, i) \/ stopProducer = 1 \/ ~Alive(1) \/ panicked \/ closes > 0)

\* C4: when the worker reopens the stream after a closed connection, the new
\* since is such that no frame emitted so far is lost (unread before, left out
\* of the new stream) and none is replayed (read before, in the new stream).
C4_ReconnectLosesNothing ==
    [][\A w \in Workers :
        (worker[w].pc = "read" /\ worker'[w].pc = "BEGIN") =>
            \A i \in (worker[w].since + 1)..Len(log) :
                /\ Ahead(w, i) => i > worker'[w].since
                /\ ~Ahead(w, i) => i <= worker'[w].since]_vars

IsIncreasing(s) == \A j, k \in 1..Len(s) : j < k => s[j] < s[k]

\* t is a run of consecutive Accepts of s that ends at most one Accept before
\* the end of s
IsLateSegment(t, s) ==
    \E d \in 0..1 :
        /\ Len(t) + d <= Len(s)
        /\ t = SubSeq(s, Len(s) - d - Len(t) + 1, Len(s) - d)

\* C5: every consumer receives the frames in the order the engine produced
\* them, and a frame goes to the consumers in registration order, to each of
\* them: what a later consumer has got is what the earlier one got since then,
\* less the frame in flight.
C5_OrderedDelivery ==
    /\ \A c \in 1..Len(consumers) : IsIncreasing(accepted[c])
    /\ \A c1, c2 \in 1..Len(consumers) :
        c1 < c2 => IsLateSegment(accepted[c2], accepted[c1])

\* C6: every Log handed to a consumer has LogType stderr for tag 2 and stdout
\* for every other tag byte.
C6_LogTypeStdoutOrStderr ==
    \A w \in Workers :
        worker[w].pc = "deliver" =>
            LogOf(w).LogType = IF worker[w].h0 = 2 THEN StderrLog ELSE StdoutLog

\* the worker reads, in full, the header of the zero-length frame it stands at
ReadsZeroFrame(w) ==
    /\ worker[w].pc = "read"
    /\ worker[w].st = "open"
    /\ FrameAt(worker[w].since, worker[w].pos) # 0
    /\ log[FrameAt(worker[w].since, worker[w].pos)].payload = <<>>
    /\ worker'[w].pos = worker[w].pos + HeaderSize

\* C7: a header whose length field is zero leads to no payload read and no
\* Accept; reading the header of a zero-length frame changes no consumer, raises
\* no error and leaves the worker at the top of its loop at the start of the
\* next frame.
C7_ZeroLengthFrameSkipped ==
    /\ [](\A w \in Workers :
            worker[w].pc \in {"payload", "deliver"} => worker[w].count > 0)
    /\ [](\A c \in 1..MaxConsumers : \A j \in 1..Len(accepted[c]) :
            accepted[c][j] # 0 => log[accepted[c][j]].payload # <<>>)
    /\ [][\A w \in Workers :
            ReadsZeroFrame(w) =>
                /\ accepted' = accepted
                /\ ~panicked'
                /\ worker'[w] = AtSelect([worker[w] EXCEPT !.pos = @ + HeaderSize])
                /\ \/ worker'[w].pos = Len(Stream(worker[w].since))
                   \/ FrameAt(worker[w].since, worker'[w].pos)
                        = FrameAt(worker[w].since, worker[w].pos) + 1]_vars

\* C7 witness: a consumer got frame 2 from a worker that had read the
\* zero-length frame 1 before it, every Read in full
C7_Witness ==
    /\ Len(log) >= 2
    /\ log[1].payload = <<>>
    /\ worker[1].since = 0
    /\ shorts = 0
    /\ Got(1, 2)

\* C8: for every frame the worker consumes exactly the 8 header bytes, then
\* exactly as many payload bytes as the header says, and the Content it hands
\* over is those payload bytes.
C8_ContentIsThePayload ==
    \A w \in Workers :
        /\ worker[w].pc = "payload" =>
            \E i \in (worker[w].since + 1)..Len(log) :
                /\ worker[w].pos = FrameStart(worker[w].since, i) + HeaderSize
                /\ worker[w].count = Len(log[i].payload)
        /\ worker[w].pc = "deliver" =>
            \E i \in (worker[w].since + 1)..Len(log) :
                /\ worker[w].pos = FrameStart(worker[w].since, i) + Len(Encode(log[i]))
                /\ LogOf(w).Content = log[i].payload

\* C9: a Read that fails with an error other than a closed connection does not
\* end the worker, and the frames that follow are still delivered.
C9_ReadErrorKeepsDelivering ==
    /\ [][(worker[1].pc \in {"read", "payload"} /\ worker[1].st = "expired")
            => Alive(1)']_vars
    /\ \A i \in 1..MaxFrames :
        (/\ worker[1].pc \in {"read", "payload"}
         /\ worker[1].st = "expired"
         /\ Ahead(1, i)
         /\ log[i].payload # <<>>
         /\ Len(consumers) >= 1)
        ~> (Got(1, i) \/ stopProducer = 1 \/ ~Alive(1) \/ panicked)

\* C10: at most one log-producer worker exists per container, and no frame is
\* delivered twice to the same consumer.
C10_AtMostOneWorker ==
    /\ Cardinality({w \in Workers : Alive(w)}) <= 1
    /\ \A c \in 1..MaxConsumers : \A j, k \in 1..Len(accepted[c]) :
        (j # k /\ accepted[c][j] # 0) => accepted[c][j] # accepted[c][k]

\* C11: c.consumers is never written by FollowOutput while a worker goroutine is
\* between decoding a header and the end of its range over c.consumers: the
\* append and the worker's read of the slice are ordered by no lock and no
\* channel operation, so such a step is a data race.
C11_NoRacingFollowOutput ==
    [][consumers' # consumers =>
        \A w \in Workers : worker[w].pc \notin {"payload", "deliver"}]_vars

\* C12: Start issues the engine start request first and calls WaitUntilReady
\* only after that request succeeded and only with a wait strategy attached; a
\* container becomes running only in the step that ends a Start without error,
\* with the engine container started: the wait's return when a wait strategy is
\* attached, the start request's return otherwise.
C12_RunningAfterStartAndWait ==
    /\ [](call.pc = "WaitUntilReady" =>
            res[call.c].eng = "started" /\ res[call.c].wait)
    /\ [][call'.pc = "WaitUntilReady" => call.pc \in {"ContainerStart", "WaitUntilReady"}]_vars
    /\ [][\A c \in 1..Len(res) :
            (~res[c].isRunning /\ res'[c].isRunning) =>
                /\ call.c = c
                /\ call.pc = IF res[c].wait THEN "WaitUntilReady" ELSE "ContainerStart"
                /\ res'[c].eng = "started"
                /\ call' = Idle
                /\ ~ret'.err]_vars

\* C12 witness: a container with a wait strategy is running
C12_Witness ==
    \E c \in 1..Len(res) :
        res[c].wait /\ res[c].isRunning /\ res[c].eng = "started"

\* C13: the step in which WaitUntilReady returns either ends Start without error
\* and marks the container running, or ends it with the error: then no engine
\* request is issued, the engine container stays started, the container is not
\* marked running by that call, and a RunContainer call returns the error
\* together with the container's handle.
C13_WaitFailureLeavesContainerStarted ==
    [][call.pc = "WaitUntilReady" =>
        /\ call' = Idle
        /\ \/ ~ret'.err /\ res'[call.c].isRunning
           \/ /\ ret'.err
              /\ res' = res
              /\ images' = images
              /\ res[call.c].eng = "started"
              /\ call.op = "RunContainer" => ret'.h = call.c]_vars

\* C13 witness: RunContainer returned an error with the handle of a container
\* that has a wait strategy, is started in the engine and is not marked running
C13_Witness ==
    /\ call = Idle
    /\ ret.err
    /\ ret.h # 0
    /\ res[ret.h].wait
    /\ res[ret.h].eng = "started"
    /\ ~res[ret.h].isRunning

\* C14: when the engine create request of a CreateContainer, RunContainer or
\* CreateNetwork call is about to be issued (and before, when its image is
\* built), the call has a reaper and a connection to it unless the request set
\* SkipReaper, and then it has asked for none; a call with SkipReaper
\* never provisions or connects a reaper; every handle has a notify channel
\* exactly when its request did not set SkipReaper.
C14_ReaperBeforeCreate ==
    /\ [](call.pc \in {"BuildImage", "ContainerCreate", "NetworkCreate"} =>
            IF call.req.skip
            THEN ~call.term
            ELSE call.term /\ reaper.conn /\ reaper.sid # 0)
    /\ [](\A i \in 1..Len(res) : res[i].term <=> ~res[i].skip)
    /\ [][(call.op # "idle" /\ call.req.skip /\ call.op # "Start") =>
            (reaper'.sid = reaper.sid /\ reaper'.conn = reaper.conn)]_vars

\* C14 witness: a network was created under the reaper and a container's
\* create request is about to be issued under it
C14_Witness ==
    /\ call.pc = "ContainerCreate"
    /\ ~call.req.skip
    /\ call.term
    /\ \E n \in 1..Len(res) : res[n].kind = "network" /\ res[n].term

\* C15: a call that leaves the reaper block without a reaper it is connected to
\* ends there: it returns an error and no handle, and it has issued no engine
\* create or build request; the connection is only asked of a reaper that was
\* created.
C15_ReaperErrorEndsCreate ==
    /\ [](call.pc = "Connect" => reaper.sid # 0)
    /\ [][(/\ call.pc \in {"NewReaper", "Connect"}
           /\ call'.pc \notin {"NewReaper", "Connect"}
           /\ ~(call'.term /\ reaper'.conn /\ reaper'.sid # 0)) =>
            /\ call' = Idle
            /\ ret' = [h |-> 0, err |-> TRUE]
            /\ res' = res
            /\ images' = images]_vars

\* C15 witness: the reaper was created, the connection to it failed, the call
\* returned an error and the engine holds no resource
C15_Witness ==
    /\ call = Idle
    /\ ret = [h |-> 0, err |-> TRUE]
    /\ reaper.sid # 0
    /\ ~reaper.conn
    /\ res = <<>>
    /\ images = <<>>
    /\ uuids = 1

\* C16: every container and network created without SkipReaper carries the
\* session-group label in its create request, with the reaper's session-group
\* identifier as the value, whatever labels the caller's request had.
C16_SessionLabelOnCreate ==
    \A i \in 1..Len(res) :
        ~res[i].skip => (reaper.sid # 0 /\ res[i].label = Labels(reaper))

\* C17: once the owning process has died and the reaper has swept, no image
\* built for a container that was created without SkipReaper is left in the
\* engine.
C17_BuiltImageSwept ==
    reaper.swept =>
        \A c \in 1..Len(res) :
            (res[c].built /\ ~res[c].skip) => images[res[c].img].eng = "removed"

\* C18: the containers created under the reaper that have not been terminated
\* have one and the same SessionID(), and it is the value of the session-group
\* label they carry.
C18_OneSessionID ==
    \A c1, c2 \in 1..Len(res) :
        (/\ res[c1].kind = "container" /\ ~res[c1].skip /\ res[c1].sid # 0
         /\ res[c2].kind = "container" /\ ~res[c2].skip /\ res[c2].sid # 0) =>
            /\ res[c1].sid = res[c2].sid
            /\ res[c1].sid = res[c1].label

\* C19: every Terminate of a container and every Remove of a network whose
\* handle has a notify channel sends on it: the step happens with the listener
\* receiving, and the listener has the notification after it.
C19_TerminationNotified ==
    [][\A i \in 1..MaxCreates :
        ((Terminate(i) \/ Remove(i)) /\ res[i].term) =>
            (Notified(res[i]) /\ reaper'.lst = "done")]_vars

\* C20: whenever the caller is in no other call, Terminate of any container and
\* Remove of any network it has the handle of can take its step (the select and the removal request
\* that follows it): with a nil channel, with nobody receiving, and after the
\* listener has taken its one notification.
C20_TerminateNeverBlocks ==
    (call = Idle /\ ~crashed) =>
        \A i \in 1..Len(res) :
            res[i].h =>
                IF res[i].kind = "container"
                THEN ENABLED Terminate(i)
                ELSE ENABLED Remove(i)

\* C20 witness: a container without notify channel and a network with one were
\* removed from the engine while the listener was not receiving
C20_Witness ==
    /\ reaper.lst = "starting"
    /\ \E c, n \in 1..Len(res) :
        /\ res[c].kind = "container" /\ ~res[c].term /\ res[c].eng = "removed"
        /\ res[n].kind = "network" /\ res[n].term /\ res[n].eng = "removed"

\* ---- C21
\* a container handle on which Terminate has returned nil: only Terminate sets
\* the session id to the zero UUID
IsTerminated(c) == IsContainer(c) /\ res[c].sid = 0

\* C21: after Terminate has returned successfully the handle is terminated for
\* good: IsRunning is false and the session id is the zero UUID in every later
\* state, whatever Start, Stop and Terminate calls follow on the same handle.
C21_TerminatedForGood ==
    [][\A c \in 1..Len(res) :
           IsTerminated(c) => IsTerminated(c)' /\ ~res[c].isRunning /\ ~res'[c].isRunning]_vars

\* Start has been called on a terminated handle and is about to send its start
\* request to the engine
C21_Witness ==
    \E c \in 1..Len(res) :
        /\ IsTerminated(c)
        /\ call.op = "Start"
        /\ call.c = c
        /\ call.pc = "ContainerStart"

\* ---- C22
\* C22: when Terminate returns an error, the engine resources that existed
\* before the call are exactly as they were: the container has not been removed
\* and a built image has not been removed.
C22_FailedTerminateChangesNothing ==
    [][\A c \in 1..Len(res) :
           (Terminate(c) /\ ret'.err) =>
               /\ res'[c].eng = res[c].eng
               /\ images' = images]_vars

\* ---- C23
\* a step in which an ImagePull call returns ans
PullAnswered(ans) ==
    pulling.pc = "ImagePull" /\ pulling'.pc # "ImagePull" /\ pulling'.last = ans

\* a step that begins a further ImagePull call
PullsAgain == pulling'.n > pulling.n /\ pulling.n > 0

\* C23 as stated: attemptToPullImage makes no further pull request when the
\* engine answers not-found and returns that error; for any other pull error
\* it retries; it makes no further request once a pull has succeeded or the
\* caller's context is cancelled.
C23_RetriesUntilSuccessOrCancel ==
    [][/\ PullAnswered("notfound") =>
             pulling'.pc = "returned" /\ pulling'.err = "notfound"
       /\ PullAnswered("other") => pulling'.pc = "wait"
       /\ PullsAgain => ~pulling.cancelled /\ pulling.last = "other"]_vars

\* C23, amended: a not-found answer ends the call with that error and without a
\* further request; any other pull error is retried unless the back-off's
\* maximum elapsed time would be passed, in which case that error is returned;
\* no request follows a successful pull; at most one ImagePull call is made
\* under a cancelled context; the number of calls is bounded.
C23_RetriesWithinElapsedTime ==
    [][/\ PullAnswered("notfound") =>
             pulling'.pc = "returned" /\ pulling'.err = "notfound"
       /\ PullAnswered("other") =>
             \/ pulling'.pc = "wait"
             \/ /\ pulling'.pc = "returned"
                /\ pulling'.err = "other"
                /\ \E d \in Intervals : pulling.now + d > MaxElapsedTime
       /\ PullsAgain => pulling.last \in {"other", "ctx"}
       /\ pulling'.late <= 1
       /\ pulling'.n <= MaxElapsedTime + 1]_vars

\* the engine answered not-found to a retried request and the call has
\* returned that error
C23_Witness ==
    /\ pulling.pc = "returned"
    /\ pulling.err = "notfound"
    /\ pulling.n > 1

\* ---- C24
\* the step in which the reaper sweeps
Sweeps == ~reaper.swept /\ reaper'.swept

\* x, a container, network or image, has become x2 by a sweep that removes it
\* once when it carries the reaper's session-group label and leaves it otherwise
SweptOnce(x, x2) ==
    IF x.label = reaper.sid
    THEN x2.eng = "removed" /\ x2.rm = 1
    ELSE x2 = x

\* C24: when the control connection of a reaper is closed or lost, every
\* resource carrying that reaper's session-group label is removed exactly once,
\* and no resource carrying a different session-group label is removed.
C24_SweepRemovesLabelledOnce ==
    [][Sweeps =>
          /\ \A i \in 1..Len(res) : SweptOnce(res[i], res'[i])
          /\ \A i \in 1..Len(images) : SweptOnce(images[i], images'[i])]_vars

\* the reaper has swept: a resource of its label is removed, removed once, and
\* a resource carrying another label is still held by the engine
C24_Witness ==
    /\ reaper.swept
    /\ \E i, j \in 1..Len(res) :
        /\ i # j
        /\ res[i].label = reaper.sid
        /\ res[i].rm = 1
        /\ res[j].label # reaper.sid
        /\ res[j].eng = "created"

\* ---- C28
\* the bytes of s that are no line end
RECURSIVE NoLineEnds(_)
NoLineEnds(s) ==
    IF s = <<>> THEN <<>>
    ELSE IF Head(s) = NewLine THEN NoLineEnds(Tail(s))
    ELSE <<Head(s)>> \o NoLineEnds(Tail(s))

\* C28: for every well-formed frame stream, the reader returned by Logs yields
\* the payload lines with the 8-byte frame header removed exactly once per
\* logical line, also when a line is longer than the read buffer: no header
\* byte is passed through and no payload byte is dropped.  Line ends apart,
\* what the reader has yielded at the end of the stream is the payloads.
C28_HeadersTrimmedPayloadKept ==
    reading.pc = "closed" =>
        NoLineEnds(reading.out) = NoLineEnds(PayloadsOf(reading.frames))

\* ---- C25
\* C25: WaitUntilReady of a log strategy with occurrence N reports Ready only
\* after at least N matching lines have appeared in the container's log
\* output, and reports a timeout error, not earlier than the startup timeout,
\* when fewer than N appear.
C25_LogReadyAfterOccurrences ==
    waiting.kind = "log" =>
        /\ waiting.pc = "Ready" =>
               Matching(PayloadsOf(waiting.log)) >= waiting.occurrence
        /\ waiting.pc = "Failed" =>
               waiting.err = "timeout" /\ waiting.now >= StartupTimeout

\* ---- C26
\* a step that is a readiness probe
ProbeStep == waiting.pc = "Polling" /\ waiting.slept /\ ~waiting'.slept

\* C26 as stated: WaitUntilReady of an HTTP strategy treats a refused or failed
\* connection as not yet ready and keeps polling, reports Ready at the first
\* response whose status the predicate accepts, and reports an error only when
\* the timeout elapses.
C26_HTTPErrorOnlyAtTimeout ==
    [][waiting.kind = "http" =>
          /\ (ProbeStep /\ waiting.server = "refused") => waiting'.pc = "Polling"
          /\ (ProbeStep /\ waiting.server = "accepted") => waiting'.pc = "Ready"
          /\ waiting'.pc = "Ready" => waiting.server = "accepted"
          /\ waiting'.pc = "Failed" => waiting'.now >= StartupTimeout]_vars

\* C26, amended: a refused or failed connection is not yet ready and the
\* strategy keeps polling; it reports Ready at the first response whose status
\* the predicate accepts; it reports an error only when the startup timeout
\* elapses or the caller's context is cancelled.
C26_HTTPErrorAtTimeoutOrCancel ==
    [][waiting.kind = "http" =>
          /\ (ProbeStep /\ waiting.server = "refused") => waiting'.pc = "Polling"
          /\ (ProbeStep /\ waiting.server = "accepted") => waiting'.pc = "Ready"
          /\ waiting'.pc = "Ready" => waiting.server = "accepted"
          /\ waiting'.pc = "Failed" =>
                 waiting'.now >= StartupTimeout \/ waiting'.cancelled]_vars

\* an HTTP strategy is Ready after a probe that was refused
C26_Witness ==
    /\ waiting.kind = "http"
    /\ waiting.pc = "Ready"
    /\ waiting.probes >= 2

\* ---- C27
\* the wait is to end
Ending == waiting.pc = "Polling" /\ (waiting.cancelled \/ waiting.now >= StartupTimeout)

\* C27: when the caller's context is cancelled or the startup timeout elapses
\* during WaitUntilReady, the wait ends in Failed with an error, and no
\* readiness probe is made after the cancellation.
C27_CancelEndsInFailed ==
    /\ [][Ending =>
             /\ ~ProbeStep
             /\ waiting'.pc \in {"Polling", "Failed"}
             /\ waiting'.pc = "Failed" => waiting'.err # "nil"]_vars
    /\ Ending ~> waiting.pc = "Failed"

\* a wait that had made a probe was cancelled before the startup timeout and has
\* ended in Failed
C27_Witness ==
    /\ waiting.pc = "Failed"
    /\ waiting.err = "cancelled"
    /\ waiting.probes >= 1
    /\ waiting.now < StartupTimeout

\* ---- C30
\* a step of CreateContainer after the engine has created the container, in
\* which CreateContainer returns an error
FailsAfterCreate ==
    /\ call.pc \in {"NetworkConnect", "CopyFileToContainer"}
    /\ call' = Idle
    /\ ret'.err

\* C30: if a step after the engine has created the container fails in
\* CreateContainer (attaching a further network, copying a file),
\* CreateContainer returns an error and no handle and does not remove the
\* container, which stays in the engine with its reaper labels: the labels of
\* its create request.
C30_FailedCreateLeavesContainer ==
    [][FailsAfterCreate =>
          /\ ret'.h = 0
          /\ ~res'[call.c].h
          /\ res'[call.c].eng = "created"
          /\ res'[call.c].rm = 0
          /\ res'[call.c].label = call.label]_vars

\* CreateContainer has returned an error and no handle, and the engine holds a
\* container under the reaper's label of which the caller has no handle
C30_Witness ==
    /\ call = Idle
    /\ ret = [h |-> 0, err |-> TRUE]
    /\ \E c \in 1..Len(res) :
        /\ res[c].kind = "container"
        /\ ~res[c].h
        /\ res[c].eng = "created"
        /\ res[c].label = Labels(reaper)
        /\ res[c].label # 0

\* ---- C31
\* a Start call is at its start request on a container that a Stop has stopped
StartsStopped ==
    /\ call.op = "Start"
    /\ call.pc = "ContainerStart"
    /\ res[call.c].eng = "exited"
    /\ ~res[call.c].isRunning

\* the Start call in flight ends, by its next one or two steps, with the
\* container running
RunsAgain ==
    \/ ENABLED (ContainerStart /\ res'[call.c].isRunning)
    \/ ENABLED (ContainerStart /\ call'.pc = "WaitUntilReady")

\* C31: Stop sets IsRunning to false only when the engine's stop request
\* succeeds; when the request fails Stop returns the error and leaves IsRunning,
\* the session id and the consumer list as they were; and a Start that follows a
\* successful Stop can make the container running again.
C31_StopOnlyOnSuccess ==
    /\ [][\A c \in 1..MaxCreates : Stop(c) =>
            /\ res'[c].sid = res[c].sid
            /\ consumers' = consumers
            /\ IF ret'.err
               THEN res'[c].isRunning = res[c].isRunning
               ELSE ~res'[c].isRunning]_vars
    /\ [](StartsStopped => RunsAgain)

\* a Stop has stopped a container that ran, and a Start of it is in flight
C31_Witness ==
    /\ StartsStopped
    /\ IsContainer(call.c)
    /\ res[call.c].sid # 0

\* ---- C32
\* C32: when Terminate returns an error, from the container removal, the image
\* removal or the closing of the client, the handle's IsRunning flag and session
\* id are what they were before the call.
C32_FailedTerminateKeepsHandle ==
    [][\A c \in 1..MaxCreates : Terminate(c) /\ ret'.err =>
          /\ res'[c].isRunning = res[c].isRunning
          /\ res'[c].sid = res[c].sid]_vars

\* a Terminate has removed a running container and then returned an error: the
\* handle still says running and still has its session id
C32_Witness ==
    /\ call = Idle
    /\ ret.err
    /\ \E c \in 1..MaxCreates :
        /\ IsContainer(c)
        /\ res[c].eng = "removed"
        /\ res[c].isRunning
        /\ res[c].sid # 0

\* ---- C33
\* C33: Terminate attempts the reaper notification before it asks the engine to
\* remove the container, so that after every Terminate of a container created
\* with a reaper whose removal request fails, the container still being there,
\* the reaper has been notified.
C33_NotifiedWhenRemovalFails ==
    [][\A c \in 1..MaxCreates :
        (/\ Terminate(c)
         /\ res[c].term
         /\ ret'.err
         /\ res'[c].eng # "removed") => reaper'.lst = "done"]_vars

\* ---- C34
\* C34: merging the reaper's labels into a container or network request never
\* overwrites a label of the caller: for every key of the caller's labels the
\* value sent to the engine is the caller's value, at every moment of the merge
\* the request has it, and every reaper label whose key the caller did not use
\* is sent with the reaper's value.
C34_MergeKeepsCallerLabels ==
    merging.pc # "idle" =>
        \A k \in LabelKeys :
            /\ merging.own[k] # 0 => merging.labels[k] = merging.own[k]
            /\ merging.pc = "sent" =>
                IF merging.own[k] # 0
                THEN merging.sent[k] = merging.own[k]
                ELSE merging.sent[k] = merging.reaper[k]

\* a request was sent whose caller and reaper both had a value, not the same
\* one, for one key, and the reaper alone for another
C34_Witness ==
    /\ merging.pc = "sent"
    /\ \E j, k \in LabelKeys :
        /\ merging.own[j] # 0
        /\ merging.reaper[j] # 0
        /\ merging.reaper[j] # merging.own[j]
        /\ merging.own[k] = 0
        /\ merging.reaper[k] # 0
        /\ merging.sent[k] # 0

\* ---- C35
\* worker w ends the read of a payload and begins the range over c.consumers
BeginsDelivery(w) ==
    /\ worker[w].pc = "payload"
    /\ worker[w].st = "open"
    /\ worker'[w].pc \in {"deliver", "select"}

\* C35: a frame is delivered to exactly the consumers registered when its
\* delivery begins: the range of the worker goes over all of c.consumers as
\* FollowOutput has left it, so a consumer added after the producer started gets
\* every frame decoded after its registration, and every Accept goes to a
\* consumer of that range.
C35_DeliveredToRegistered ==
    [][\A w \in Workers :
        /\ BeginsDelivery(w) =>
            IF Len(consumers) = 0
            THEN worker'[w].pc = "select"
            ELSE worker'[w].pc = "deliver" /\ worker'[w].n = Len(consumers)
        /\ \A c \in 1..MaxConsumers :
            (worker[w].pc = "deliver" /\ accepted'[c] # accepted[c]) =>
                c <= worker[w].n /\ c <= Len(consumers)]_vars

\* ---- C36
\* the step ends worker w: it returns, or it panics and takes the process down
Ends(w) ==
    /\ Alive(w)
    /\ ~panicked
    /\ worker'[w].pc = "exited" \/ (panicked' /\ worker[w].pc \in {"BEGIN", "select"})

\* worker w takes the value StopLogProducer sends
ReceivesStop(w) ==
    /\ worker[w].pc = "select"
    /\ stopProducer > 0
    /\ stopProducer' = stopProducer - 1

\* every Read of worker w's stream fails, and not with a closed connection
StreamFails(w) == Alive(w) /\ worker[w].st \in {"expired", "ended"}

\* C36: the log-producer worker exits only by receiving the stop signal; after
\* the container's log stream has ended, or while it keeps failing with an error
\* other than a closed connection, the worker goes on retrying the read and
\* stays alive until StopLogProducer is called.
C36_ExitsOnlyOnStop ==
    /\ [][\A w \in Workers : Ends(w) => ReceivesStop(w)]_vars
    /\ [][\A w \in Workers :
            (StreamFails(w) /\ ~ReceivesStop(w)) => StreamFails(w)' /\ ~panicked']_vars
    /\ [](\A w \in Workers :
            (StreamFails(w) /\ ~panicked) => ENABLED WorkerStep(w, FALSE, FALSE))

\* C36 as the worker is written: it ends by receiving the stop signal or by the
\* panic of a log request that fails, the first one or the one that follows a
\* closed connection; a stream that has ended or keeps failing otherwise leaves
\* it alive and retrying until StopLogProducer is called.
C36_ExitsOnStopOrLogsPanic ==
    /\ [][\A w \in Workers :
            Ends(w) => ReceivesStop(w) \/ (worker[w].pc = "BEGIN" /\ panicked')]_vars
    /\ [][\A w \in Workers :
            (StreamFails(w) /\ ~ReceivesStop(w)) => StreamFails(w)' /\ ~panicked']_vars
    /\ [](\A w \in Workers :
            (StreamFails(w) /\ ~panicked) => ENABLED WorkerStep(w, FALSE, FALSE))

\* the stream has ended after the worker delivered a frame from it; the worker
\* has passed its select once more and stands before the next Read
C36_Witness ==
    /\ worker[1].st = "ended"
    /\ worker[1].pc = "read"
    /\ stopProducer = 0
    /\ ~panicked
    /\ Len(accepted[1]) > 0

\* ---- C37
\* the reader gets the error of the stream, after everything written before it,
\* from a goroutine that has returned
ErrorAfterData ==
    piping.reader = "done" =>
        /\ piping.rerr = piping.err
        /\ piping.rerr # "nil"
        /\ piping.got = piping.wrote
        /\ piping.pc = "returned"

\* with the read end closed the goroutine leaves at the Write it is in
ExitsAtNextWrite ==
    (/\ piping.pc \in {"Write", "WriteNewLine"}
     /\ piping.reader = "closed"
     /\ piping'.pc # piping.pc) => piping'.pc = "returned"

\* C37: the goroutine started by Logs always terminates: when the engine's log
\* stream ends or fails it closes the pipe with that error, which the reader
\* gets after all the data written before it, and when the reader closes its
\* end the goroutine exits at its next write.
C37_CopierTerminates ==
    /\ piping.pc # "idle" ~> piping.pc = "returned"
    /\ []ErrorAfterData
    /\ [][ExitsAtNextWrite]_vars

\* C37 for a caller that reads the pipe to its end or closes it: the goroutine
\* terminates unless the caller has stopped reading without closing the reader.
C37_CopierTerminatesIfDrained ==
    /\ piping.pc # "idle" ~> (piping.pc = "returned" \/ piping.reader = "abandoned")
    /\ []ErrorAfterData
    /\ [][ExitsAtNextWrite]_vars

\* the caller closed the reader before the end of the stream and the goroutine
\* has returned from the Write it was parked in
C37_Witness ==
    /\ piping.pc = "returned"
    /\ piping.reader = "closed"
    /\ piping.err = "nil"
    /\ piping.wrote > 0

\* ---- C38
\* the ReuseOrCreateContainer call has found a listed container of the name
Found == call.op = "ReuseOrCreateContainer" /\ reusing.State # "none"

\* the call returns the handle of the listed container
ReturnsListed ==
    /\ ret' = [h |-> call.c, err |-> FALSE]
    /\ reusing'.dc.ID = call.c
    /\ reusing'.dc.isRunning = (reusing.State = "running")

\* the list request is answered for a name that is empty or that no listed
\* container has
ListsNone ==
    /\ call.pc = "ContainerList"
    /\ call' # call
    /\ call.c = 0 \/ ~IsListed(call.c)

\* C38: ReuseOrCreateContainer sends no create request when the engine lists a
\* container of the requested name, and returns a handle with that container's
\* id whose IsRunning says whether the listed state is running; with an empty
\* name or no listed container of the name it goes on exactly as CreateContainer.
C38_ReusesListedContainer ==
    [][/\ Found => res' = res
       /\ (Found /\ call' = Idle) => ReturnsListed
       /\ ListsNone => (call' = Delegated(call.req) /\ res' = res /\ ret' = ret)]_vars

\* C38 with the errors the call can end in: of the reaper when a container is
\* listed, of the list request when the name is not empty.
C38_ReusesListedUnlessError ==
    [][/\ Found => res' = res
       /\ (Found /\ call' = Idle) =>
            \/ ReturnsListed
            \/ (~call.req.skip /\ ret' = [h |-> 0, err |-> TRUE] /\ reusing' = reusing)
       /\ ListsNone =>
            /\ res' = res
            /\ \/ call' = Delegated(call.req) /\ ret' = ret
               \/ call.c # 0 /\ call' = Idle /\ ret' = [h |-> 0, err |-> TRUE]]_vars

\* a container that is up but not running was found by its name and its handle
\* returned, connected to the reaper
C38_Witness ==
    /\ call = Idle
    /\ ~ret.err
    /\ reusing.State = "paused"
    /\ reusing.dc.ID = ret.h
    /\ reusing.dc.ID # 0
    /\ reusing.dc.terminationSignal
    /\ ~reusing.dc.isRunning

\* ---- C39
\* C39: the container-environment initialization runs at most once per provider,
\* and if that one run failed, every later call of initContainerEnvInformation
\* returns an error too, so that every GetGatewayIP of such a provider has
\* returned an error: none reports success with an empty gateway.
C39_FailedInitKeepsFailing ==
    /\ env.runs <= 1
    /\ (env.failed # "nil" /\ env.ret.op = "GetGatewayIP") => env.ret.err # "nil"
====
